---- MODULE Spec2Model ----
(***************************************************************************)
(* A model of the NDVI raster pipeline of LewisLiu819/Alxa:                *)
(*   - the offline encoder   scripts/process_ndvi.py                       *)
(*   - the online decoder    backend/app/services/ndvi_service.py          *)
(*                                                                         *)
(* Numbers.  NDVI values are rationals [n, d] (n/d, d > 0).  Raw float     *)
(* pixels live on the grid k/Den; a dequantized byte b is (2b-255)/255.    *)
(* Coordinates are integers in tenths of a degree (103.0 E is 1030).       *)
(***************************************************************************)
EXTENDS Integers, Sequences, FiniteSets, TLC

VARIABLES
    rawfile,    \* the raw raster handed to the encoder (name, geometry, pixels)
    root,       \* the processed-data root directory on disk
    cache,      \* NDVIService._file_cache
    ret,        \* what the last operation returned to its caller
    hist,       \* history: the first listing the service returned and the
                \* first one it computed by scanning the disk
    batch       \* the batch run of the encoder (main): its input files, its
                \* position, its counters and what it did to each file

vars == <<rawfile, root, cache, ret, hist, batch>>

----------------------------------------------------------------------------
(* Bounds of the model *)

\* Resolution of the grid of raw float pixel values: v = k / Den.
Den == 510
\* How far beyond [-1, 1] the grid of raw pixel values extends (in 1/Den).
Over == 2

----------------------------------------------------------------------------
(* Values: numbers, NaN and Python's None *)

Num(n, d) == [kind |-> "num", n |-> n, d |-> d]
NaN == [kind |-> "nan", n |-> 0, d |-> 1]
None == [kind |-> "none", n |-> 0, d |-> 1]

IsNum(v) == v.kind = "num"
\* IEEE comparisons: every comparison with NaN is false.
Le(a, b) == IsNum(a) /\ IsNum(b) /\ a.n * b.d <= b.n * a.d
Lt(a, b) == IsNum(a) /\ IsNum(b) /\ a.n * b.d < b.n * a.d
Eq(a, b) == IsNum(a) /\ IsNum(b) /\ a.n * b.d = b.n * a.d
Abs(i) == IF i < 0 THEN -i ELSE i
\* |a - b| <= p / q   (q > 0)
Within(a, b, p, q) ==
    IsNum(a) /\ IsNum(b) /\ Abs(a.n * b.d - b.n * a.d) * q <= p * a.d * b.d

RECURSIVE SumSeq(_)
SumSeq(s) == IF s = <<>> THEN 0 ELSE Head(s) + SumSeq(Tail(s))

----------------------------------------------------------------------------
(* Files on disk *)

NoFile == [kind |-> "nofile"]
IsFile(f) == f.kind # "nofile"

\* Directory names and file stems are kept as their '_'-separated tokens.
EmptyPath == <<>>

\* The coordinate reference systems a raster may carry:
\*   none      dataset.crs is None
\*   epsg4326  WGS84
\*   geog      another geographic CRS (is_geographic, to_epsg() = 4269)
\*   utm       a projected CRS rio_transform can reach
\*   odd       a CRS whose inspection raises, reachable by rio_transform
\*   bad       a projected CRS for which rio_transform raises
\*   lost      (coordinate conversions only) a CRS whose inspection raises and
\*             for which rio_transform raises too
CrsKinds == {"none", "epsg4326", "geog", "utm", "odd", "bad"}

\* A raster file.  pix is row-major, 1-based; fault says whether opening or
\* reading the file raises; hasmask/mask is an internal per-dataset mask
\* (TRUE = invalid pixel).
Raster(fault, dtype, nodata, crs, left, top, res, width, height, pix, hasmask, mask) ==
    [kind |-> "raster", fault |-> fault, dtype |-> dtype, nodata |-> nodata,
     crs |-> crs, left |-> left, top |-> top, res |-> res,
     width |-> width, height |-> height, pix |-> pix,
     hasmask |-> hasmask, mask |-> mask]

\* dataset.bounds
bounds_left(ds) == ds.left
bounds_right(ds) == ds.left + ds.res * ds.width
bounds_top(ds) == ds.top
bounds_bottom(ds) == ds.top - ds.res * ds.height

----------------------------------------------------------------------------
(* Text <-> integer conversions, as finite tables of the Python functions *)

\* int(token): the tokens Python's int() accepts, with their values.
IntTable ==
    { <<"2014", 2014>>, <<"2015", 2015>>, <<"2020", 2020>>, <<"2021", 2021>>,
      <<"2024", 2024>>, <<"2025", 2025>>,
      <<"1", 1>>, <<"01", 1>>, <<"3", 3>>, <<"03", 3>>, <<"4", 4>>, <<"04", 4>>,
      <<"5", 5>>, <<"05", 5>>, <<"12", 12>>, <<"13", 13>> }
IsIntTok(t) == \E p \in IntTable : p[1] = t
py_int(t) == (CHOOSE p \in IntTable : p[1] = t)[2]

\* f"{i:02d}": the decimal of i, padded with zeros to two digits.
Pad02Table ==
    { <<2014, "2014">>, <<2015, "2015">>, <<2020, "2020">>, <<2021, "2021">>,
      <<2024, "2024">>, <<2025, "2025">>,
      <<1, "01">>, <<3, "03">>, <<4, "04">>, <<5, "05">>, <<12, "12">>, <<13, "13">> }
fmt_02d(i) == (CHOOSE p \in Pad02Table : p[1] = i)[2]

\* f"{i}": the decimal of i.
DecTable ==
    { <<2014, "2014">>, <<2015, "2015">>, <<2020, "2020">>, <<2021, "2021">>,
      <<2024, "2024">>, <<2025, "2025">>,
      <<1, "1">>, <<3, "3">>, <<4, "4">>, <<5, "5">>, <<12, "12">>, <<13, "13">> }
fmt_d(i) == (CHOOSE p \in DecTable : p[1] = i)[2]

----------------------------------------------------------------------------
(* The encoder: scripts/process_ndvi.py *)

\* The Tenggeli region, in tenths of a degree.
required_west == 1030
required_south == 375
required_east == 1052
required_north == 390

\* The supported years.
min_year == 2015
max_year == 2024

\* Faulty variant: a raster that only touches an edge of the region passes.
validate_geographic_bounds_touching(ds) ==
    /\ bounds_left(ds) <= required_east
    /\ bounds_right(ds) >= required_west
    /\ bounds_bottom(ds) <= required_north
    /\ bounds_top(ds) >= required_south

validate_geographic_bounds(ds) ==
    /\ bounds_left(ds) < required_east
    /\ bounds_right(ds) > required_west
    /\ bounds_bottom(ds) < required_north
    /\ bounds_top(ds) > required_south

\* Faulty variant: years after the range are let through.
year_in_range_lower_only(year) == ~(year < min_year)

\* not (year < 2015 or year > 2024)
year_in_range(year) == ~(year < min_year \/ year > max_year)

\* (data >= -1) & (data <= 1) & (~np.isnan(data)), for one pixel
is_valid(v) == Le(Num(-1, 1), v) /\ Le(v, Num(1, 1))

\* (data + 1) / 2 * 255, for one pixel
normalized(v) == IF IsNum(v) THEN Num((v.n + v.d) * 255, 2 * v.d) ELSE NaN

\* ndarray.astype(np.uint8) of a float: the fraction is dropped.  The cast of
\* a NaN or of a negative number is only ever taken where np.where discards
\* it, so it is given the value 0 here.
astype_uint8(x) == IF IsNum(x) /\ x.n >= 0 THEN (x.n \div x.d) % 256 ELSE 0

\* np.where(valid, normalized.astype(np.uint8), 0), for one pixel
quantize(v) == IF is_valid(v) THEN astype_uint8(normalized(v)) ELSE 0

\* Faulty variant: every pixel that is not NaN counts as valid.
valid_data_not_nan(data) == SelectSeq(data, IsNum)

valid_data(data) == SelectSeq(data, is_valid)

\* processed_data: all zero when no pixel is valid, else the per-pixel cast.
processed_data(data) ==
    IF Len(valid_data(data)) > 0
    THEN [i \in 1..Len(data) |-> Num(quantize(data[i]), 1)]
    ELSE [i \in 1..Len(data) |-> Num(0, 1)]

RECURSIVE MinSeq(_)
MinSeq(s) ==
    IF Len(s) = 1 THEN s[1]
    ELSE LET m == MinSeq(Tail(s)) IN IF Le(s[1], m) THEN s[1] ELSE m
RECURSIVE MaxSeq(_)
MaxSeq(s) ==
    IF Len(s) = 1 THEN s[1]
    ELSE LET m == MaxSeq(Tail(s)) IN IF Le(m, s[1]) THEN s[1] ELSE m

\* The raw pixels share the denominator Den; sums are kept exact.
\* mean = sum / count;  var (the square of std) = sum((x - mean)^2) / count.
mean_of(s) ==
    LET d == s[1].d IN Num(SumSeq([i \in 1..Len(s) |-> s[i].n]), d * Len(s))
var_of(s) ==
    LET d == s[1].d
        c == Len(s)
        s1 == SumSeq([i \in 1..c |-> s[i].n])
        s2 == SumSeq([i \in 1..c |-> s[i].n * s[i].n])
    IN Num(c * s2 - s1 * s1, d * d * c * c)

\* The stats record (also the content of metadata.json).  Its scalar fields
\* are values: a number, or None where the code stores None.
encoder_stats(ds) ==
    LET v == valid_data(ds.pix) IN
    [kind |-> "meta",
     min |-> IF Len(v) > 0 THEN MinSeq(v) ELSE None,
     max |-> IF Len(v) > 0 THEN MaxSeq(v) ELSE None,
     mean |-> IF Len(v) > 0 THEN mean_of(v) ELSE None,
     var |-> IF Len(v) > 0 THEN var_of(v) ELSE None,
     count |-> Num(Len(v), 1),
     bounds |-> <<bounds_left(ds), bounds_bottom(ds), bounds_right(ds), bounds_top(ds)>>,
     crs |-> ds.crs, width |-> ds.width, height |-> ds.height]

EmptyDir == [tif |-> NoFile, meta |-> NoFile]
NoDirs == [n \in {} |-> EmptyDir]
NoRoot == [exists |-> FALSE, dirs |-> NoDirs]
HasDir(r, name) == r.exists /\ name \in DOMAIN r.dirs

\* Faulty variant: making the directory clears the root of every other one.
mkdir_p_clearing(r, name) ==
    [exists |-> TRUE,
     dirs |-> [n \in {name} |-> IF HasDir(r, name) THEN r.dirs[name] ELSE EmptyDir]]

\* tile_dir.mkdir(parents=True, exist_ok=True)
mkdir_p(r, name) ==
    IF HasDir(r, name) THEN r
    ELSE [exists |-> TRUE,
          dirs |-> [n \in (DOMAIN r.dirs) \cup {name} |->
                        IF n \in DOMAIN r.dirs THEN r.dirs[n] ELSE EmptyDir]]

write_file(r, name, field, content) ==
    [r EXCEPT !.dirs[name] = [@ EXCEPT ![field] = content]]

\* Faulty variant: a metadata record already there is added to, not replaced.
save_metadata_appending(r, tile_dir, stats) ==
    write_file(r, tile_dir, "meta",
               IF IsFile(r.dirs[tile_dir].meta)
               THEN [kind |-> "meta", earlier |-> r.dirs[tile_dir].meta, then |-> stats]
               ELSE stats)

\* Faulty variant: the metadata record is not written ahead of the raster.
save_metadata_skipped(r, tile_dir, stats) == r

\* with open(metadata_file, 'w') as f: json.dump(stats, f, indent=2)
save_metadata(r, tile_dir, stats) == write_file(r, tile_dir, "meta", stats)

\* What rasterio leaves at the output path when the write raises after the
\* file was created: a GeoTIFF that cannot be read back.
torn_tif(ds) ==
    Raster("read", "uint8", None, ds.crs, ds.left, ds.top, ds.res,
           ds.width, ds.height, processed_data(ds.pix), FALSE, <<>>)

encoded_tif(ds) ==
    Raster("none", "uint8", None, ds.crs, ds.left, ds.top, ds.res,
           ds.width, ds.height, processed_data(ds.pix), FALSE, <<>>)

EncFail(r) == [success |-> FALSE, stats |-> None, root |-> r]

\* process_tiff_to_web_tiles(input_file, output_dir).  io is what the
\* environment does to the output write: "ok", "create" (opening the output
\* raises), "write" (dst.write raises after the file was created).
process_tiff_to_web_tiles(f, r, io) ==
    LET ds == f.ds
        year_month == SubSeq(f.stem, 3, IF Len(f.stem) < 4 THEN Len(f.stem) ELSE 4)
    IN
    IF ds.fault = "open" THEN EncFail(r)
    ELSE IF ~validate_geographic_bounds(ds) THEN EncFail(r)
    ELSE IF ds.fault = "read" THEN EncFail(r)
    ELSE IF Len(year_month) < 1 \/ ~IsIntTok(year_month[1]) THEN EncFail(r)
    ELSE IF ~year_in_range(py_int(year_month[1])) THEN EncFail(r)
    ELSE IF Len(year_month) < 2 THEN EncFail(r)
    ELSE
    LET tile_dir == <<year_month[1], year_month[2]>>
        stats == encoder_stats(ds)
        r1 == mkdir_p(r, tile_dir)
        r2 == save_metadata(r1, tile_dir, stats)
    IN
    IF io = "create" THEN EncFail(r2)
    ELSE IF io = "write" THEN EncFail(write_file(r2, tile_dir, "tif", torn_tif(ds)))
    ELSE [success |-> TRUE, stats |-> stats,
          root |-> write_file(r2, tile_dir, "tif", encoded_tif(ds))]

IOOutcomes == {"ok", "create", "write"}

\* One run of the encoder on the raw file.
Encode ==
    \E io \in IOOutcomes :
        LET e == process_tiff_to_web_tiles(rawfile, root, io) IN
        /\ root' = e.root
        /\ ret' = [op |-> "encode", io |-> io, success |-> e.success,
                   stats |-> e.stats]
        /\ UNCHANGED <<rawfile, cache, hist, batch>>

----------------------------------------------------------------------------
(* The decoder: backend/app/services/ndvi_service.py *)

crs_is_geographic(c) == c \in {"epsg4326", "geog"}
crs_inspect_raises(c) == c \in {"odd", "lost"}
crs_to_epsg(c) ==
    CASE c = "epsg4326" -> 4326
      [] c = "geog" -> 4269
      [] c = "utm" -> 32648
      [] OTHER -> 32649
rio_transform_raises(c) == c \in {"bad", "lost"}

\* rasterio.warp.transform(EPSG:4326 -> crs) of one point: an injective map
\* that moves every point (a projection is never the identity).
rio_transform(c, lon, lat) == <<2 * lon + 70, 3 * lat - 50>>

\* The inner try block: the CRS is geographic or EPSG:4326, and looking
\* at it did not raise (except Exception: pass).
crs_passes_through(c) ==
    ~crs_inspect_raises(c) /\ (crs_is_geographic(c) \/ crs_to_epsg(c) = 4326)

\* The body of _to_dataset_crs's outer try block.
to_dataset_crs_try(ds, lon, lat) ==
    IF ds.crs = "none" THEN [xy |-> <<lon, lat>>, exc |-> FALSE]
    ELSE IF crs_passes_through(ds.crs) THEN [xy |-> <<lon, lat>>, exc |-> FALSE]
    ELSE IF rio_transform_raises(ds.crs) THEN [xy |-> <<lon, lat>>, exc |-> TRUE]
    ELSE [xy |-> rio_transform(ds.crs, lon, lat), exc |-> FALSE]

\* Faulty variant: the exception of the transform is let through.
catch_to_original_missing(t, lon, lat) == t

\* except Exception: return lon, lat
catch_to_original(t, lon, lat) ==
    IF t.exc THEN [xy |-> <<lon, lat>>, exc |-> FALSE] ELSE t

\* NDVIService._to_dataset_crs: the point returned.
to_dataset_crs(ds, lon, lat) ==
    catch_to_original(to_dataset_crs_try(ds, lon, lat), lon, lat).xy

\* dataset.index(x, y): the inverse affine transform, floored.
index_row(ds, y) == (ds.top - y) \div ds.res
index_col(ds, x) == (x - ds.left) \div ds.res

\* Faulty variant: the lower bounds are not tested.
in_raster_upper_only(ds, row, col) == row < ds.height /\ col < ds.width

in_raster(ds, row, col) ==
    0 <= row /\ row < ds.height /\ 0 <= col /\ col < ds.width

\* Position of pixel (row, col) in the row-major pixel sequence.
pix_at(ds, row, col) == row * ds.width + col + 1

is_integer_dtype(dtype) == dtype \in {"uint8", "uint16", "int16", "int32"}

\* The mask of dataset.read(1, masked=True): the dataset's own mask when it
\* has one, else the pixels equal to the declared nodata value (a NaN nodata
\* masks the NaN pixels).
nodata_matches(nodata, v) ==
    \/ nodata.kind = "nan" /\ v.kind = "nan"
    \/ Eq(v, nodata)
pixel_masked(ds, i) ==
    IF ds.hasmask THEN ds.mask[i] ELSE nodata_matches(ds.nodata, ds.pix[i])

\* dataset.read(1, window=Window(col, row, 1, 1), masked=True): the pixel of
\* the window with its mask bit; no pixel at all when the window lies outside
\* the raster (data.size is 0).
read_window(ds, row, col) ==
    IF 0 <= row /\ row < ds.height /\ 0 <= col /\ col < ds.width
    THEN <<[v |-> ds.pix[pix_at(ds, row, col)],
            masked |-> pixel_masked(ds, pix_at(ds, row, col))]>>
    ELSE <<>>

\* Faulty variant: the byte is divided by 256.
dequantize_by_256(raw) == Num(2 * raw.n - 256 * raw.d, 256 * raw.d)

\* raw_value / 255.0 * 2.0 - 1.0
dequantize(raw) == Num(2 * raw.n - 255 * raw.d, 255 * raw.d)

\* Faulty variant: the final range check left out.
range_check_missing(v) == v

\* if np.isnan(v) or v < -1.0 or v > 1.0: return None
range_check(v) ==
    IF v.kind = "nan" \/ Lt(v, Num(-1, 1)) \/ Lt(Num(1, 1), v) THEN None ELSE v

\* Faulty variant: raw 0 of an integer raster is not taken for nodata.
normalize_by_dtype_zero_kept(ds, raw_value) ==
    IF is_integer_dtype(ds.dtype)
    THEN range_check(dequantize(raw_value))
    ELSE range_check(raw_value)

\* Normalize depending on dtype (lines 108-119)
normalize_by_dtype(ds, raw_value) ==
    IF is_integer_dtype(ds.dtype)
    THEN IF \/ ds.nodata.kind = "none" /\ Eq(raw_value, Num(0, 1))
            \/ ds.nodata.kind # "none" /\ Eq(raw_value, ds.nodata)
         THEN None
         ELSE range_check(dequantize(raw_value))
    ELSE range_check(raw_value)

\* Lines 96-119: the value of the pixel read (px.v with its mask bit), or None.
decode_pixel(ds, px) ==
    IF px.masked THEN None
    ELSE IF ds.nodata.kind = "num" /\ Eq(px.v, ds.nodata) THEN None
    ELSE normalize_by_dtype(ds, px.v)

path_exists(r, path) ==
    path # EmptyPath /\ HasDir(r, path) /\ IsFile(r.dirs[path].tif)

Returned(val, nread) == [val |-> val, nread |-> nread, exc |-> FALSE]
Raised(nread) == [val |-> None, nread |-> nread, exc |-> TRUE]

\* The body of extract_point_value's try block.  nread counts the pixel
\* windows the call asks the dataset for.
extract_try(r, file_path, lat, lon) ==
    IF file_path = EmptyPath \/ ~path_exists(r, file_path) THEN Returned(None, 0)
    ELSE
    LET ds == r.dirs[file_path].tif IN
    IF ds.fault = "open" THEN Raised(0)
    ELSE
    LET xy == to_dataset_crs(ds, lon, lat)
        row == index_row(ds, xy[2])
        col == index_col(ds, xy[1])
    IN
    IF ~in_raster(ds, row, col) THEN Returned(None, 0)
    ELSE IF ds.fault = "read" THEN Raised(1)
    ELSE
    LET data == read_window(ds, row, col) IN
    IF Len(data) = 0 THEN Returned(None, 1)
    ELSE Returned(decode_pixel(ds, data[1]), 1)

\* Faulty variant: no except clause, the exception reaches the caller.
catch_nothing(t) == t

\* except Exception: print(...); return None
catch_to_none(t) == IF t.exc THEN Returned(None, t.nread) ELSE t

\* NDVIService.extract_point_value
extract_point_value(r, file_path, lat, lon) ==
    catch_to_none(extract_try(r, file_path, lat, lon))

NoCache == [set |-> FALSE, files |-> <<>>]
\* No batch run is under way.
NoBatch == [pc |-> "none"]
NoHist == [called |-> FALSE, first |-> <<>>, scanned |-> FALSE, scan |-> <<>>]

\* Faulty variant: the month is not padded.
slot_path_unpadded(year, month) == <<fmt_d(year), fmt_d(month)>>

\* The path of a slot's processed.tif, as get_value and get_map_statistics
\* build it: processed_data_path / f"{year}_{month:02d}" / "processed.tif"
slot_path(year, month) == <<fmt_d(year), fmt_02d(month)>>

\* NDVIService.get_value
get_value(r, year, month, lat, lon) ==
    IF ~path_exists(r, slot_path(year, month)) THEN Returned(None, 0)
    ELSE extract_point_value(r, slot_path(year, month), lat, lon)

GetValue(year, month, lat, lon) ==
    LET t == get_value(root, year, month, lat, lon) IN
    /\ ret' = [op |-> "get_value", year |-> year, month |-> month,
               path |-> slot_path(year, month), lat |-> lat, lon |-> lon,
               val |-> t.val, nread |-> t.nread, raised |-> t.exc]
    /\ UNCHANGED <<rawfile, root, cache, hist, batch>>

\* step = max(1, min(height, width) // 1000)
sample_divisor == 1000
\* Faulty variant: the quotient is rounded up.
sample_step_rounded_up(ds) ==
    LET m == IF ds.height < ds.width THEN ds.height ELSE ds.width
        q == (m + sample_divisor - 1) \div sample_divisor
    IN IF q < 1 THEN 1 ELSE q

sample_step(ds) ==
    LET m == IF ds.height < ds.width THEN ds.height ELSE ds.width
        q == m \div sample_divisor
    IN IF q < 1 THEN 1 ELSE q

\* The slice [::step] of an axis of n pixels: the indices 0, step, 2*step, ...
sample_index(n, step) == [k \in 1..((n + step - 1) \div step) |-> (k - 1) * step]

\* dataset.read(1, masked=True)[::step, ::step]: the pixels at rows and
\* columns 0, step, 2*step, ..., row-major, each with its mask bit.
sample_data(ds) ==
    LET step == sample_step(ds)
        rows == sample_index(ds.height, step)
        cols == sample_index(ds.width, step)
        nc == Len(cols)
    IN [k \in 1..(Len(rows) * nc) |->
            LET i == pix_at(ds, rows[((k - 1) \div nc) + 1], cols[((k - 1) % nc) + 1])
            IN [v |-> ds.pix[i], masked |-> pixel_masked(ds, i)]]

IsUnmasked(px) == ~px.masked
\* Float rasters: arr = filled(nan); arr[(arr >= -1) & (arr <= 1) & ~isnan(arr)]
IsValidFloat(px) == ~px.masked /\ is_valid(px.v)

\* valid_data of get_map_statistics.  A masked read always has a mask, so for
\* an integer raster the values are the unmasked pixels, each mapped with
\* v / 255 * 2 - 1 (the branch testing sample_data != 0 is never taken).
\* The float32 rounding of the mapped values is not modelled.
stats_valid_data(ds) ==
    IF is_integer_dtype(ds.dtype)
    THEN LET u == SelectSeq(sample_data(ds), IsUnmasked)
         IN [k \in 1..Len(u) |-> dequantize(u[k].v)]
    ELSE LET u == SelectSeq(sample_data(ds), IsValidFloat)
         IN [k \in 1..Len(u) |-> u[k].v]

EmptyStats == [empty |-> TRUE, exc |-> FALSE]
StatsRaised == [empty |-> TRUE, exc |-> TRUE]

\* The body of get_map_statistics's try block.
map_statistics_try(ds) ==
    IF ds.fault # "none" THEN StatsRaised
    ELSE
    LET v == stats_valid_data(ds) IN
    IF Len(v) = 0 THEN EmptyStats
    ELSE [empty |-> FALSE, exc |-> FALSE,
          min |-> MinSeq(v), max |-> MaxSeq(v),
          mean |-> mean_of(v), var |-> var_of(v),
          count |-> Len(v), sampled |-> TRUE, sample_step |-> sample_step(ds)]

\* except Exception: print(...); return {}
catch_to_empty(t) == IF t.exc THEN EmptyStats ELSE t

\* NDVIService.get_map_statistics
get_map_statistics(r, year, month) ==
    IF ~path_exists(r, slot_path(year, month)) THEN EmptyStats
    ELSE catch_to_empty(map_statistics_try(r.dirs[slot_path(year, month)].tif))

GetMapStatistics(year, month) ==
    /\ ret' = [op |-> "stats", year |-> year, month |-> month,
               path |-> slot_path(year, month),
               stats |-> get_map_statistics(root, year, month)]
    /\ UNCHANGED <<rawfile, root, cache, hist, batch>>

ExtractPointValue(file_path, lat, lon) ==
    LET t == extract_point_value(root, file_path, lat, lon) IN
    /\ ret' = [op |-> "extract", path |-> file_path, lat |-> lat, lon |-> lon,
               val |-> t.val, nread |-> t.nread, raised |-> t.exc]
    /\ UNCHANGED <<rawfile, root, cache, hist, batch>>

----------------------------------------------------------------------------
(* The catalog and the time series: NDVIService.get_available_files,       *)
(* get_time_series, _calculate_statistics                                  *)

\* The tokens of the model in Python's string order, which decides between
\* two paths when sorted() compares entries of the same (year, month).
TokenOrder ==
    <<"01", "03", "04", "05", "1", "12", "13", "2014", "2015", "2020", "2021",
      "2024", "2025", "3", "4", "5", "tmp", "xx">>
token_rank(t) == CHOOSE i \in 1..Len(TokenOrder) : TokenOrder[i] = t

RECURSIVE path_lt(_, _)
path_lt(p, q) ==
    IF q = <<>> THEN FALSE
    ELSE IF p = <<>> THEN TRUE
    ELSE IF Head(p) = Head(q) THEN path_lt(Tail(p), Tail(q))
    ELSE token_rank(Head(p)) < token_rank(Head(q))

\* Python's order of the tuples (year, month, path).
entry_lt(a, b) ==
    \/ a.year < b.year
    \/ a.year = b.year /\ a.month < b.month
    \/ a.year = b.year /\ a.month = b.month /\ path_lt(a.path, b.path)

\* sorted(files).  files holds one item per directory that contributed: the
\* entry e (year, month, path) and the directory src it came from, so that
\* two directories contributing equal entries (2020_3 and 2020_03, both
\* without a raster) are listed twice, as in the Python list.
RECURSIVE sorted(_)
sorted(S) ==
    IF S = {} THEN <<>>
    ELSE LET lo == CHOOSE a \in S : \A b \in S \ {a} : ~entry_lt(b.e, a.e)
         IN <<lo.e>> \o sorted(S \ {lo})

\* Faulty variant: only a directory holding the raster contributes.
dir_qualifies_raster_only(r, name) ==
    /\ Len(name) = 2 /\ IsIntTok(name[1]) /\ IsIntTok(name[2])
    /\ IsFile(r.dirs[name].tif)

\* Lines 51-69: the entry a directory contributes, if any.
dir_qualifies(r, name) ==
    /\ Len(name) >= 2
    /\ Len(name) = 2 /\ IsIntTok(name[1]) /\ IsIntTok(name[2])
    /\ (IsFile(r.dirs[name].tif) \/ IsFile(r.dirs[name].meta))
dir_entry(r, name) ==
    [year |-> py_int(name[1]), month |-> py_int(name[2]),
     path |-> IF IsFile(r.dirs[name].tif) THEN name ELSE EmptyPath]
scan(r) ==
    {[e |-> dir_entry(r, name), src |-> name] :
        name \in {n \in DOMAIN r.dirs : dir_qualifies(r, n)}}

\* Faulty variant: the cache is never consulted, every call scans the disk.
get_available_files_uncached(r, c) ==
    IF ~r.exists THEN [files |-> <<>>, cache |-> c, scanned |-> FALSE]
    ELSE [files |-> sorted(scan(r)),
          cache |-> [set |-> TRUE, files |-> sorted(scan(r))],
          scanned |-> TRUE]

\* Faulty variant: the cached listing is returned once and then dropped.
get_available_files_invalidating(r, c) ==
    IF c.set THEN [files |-> c.files, cache |-> NoCache, scanned |-> FALSE]
    ELSE IF ~r.exists THEN [files |-> <<>>, cache |-> c, scanned |-> FALSE]
    ELSE [files |-> sorted(scan(r)),
          cache |-> [set |-> TRUE, files |-> sorted(scan(r))],
          scanned |-> TRUE]

\* NDVIService.get_available_files: the list returned and the cache after.
get_available_files(r, c) ==
    IF c.set THEN [files |-> c.files, cache |-> c, scanned |-> FALSE]
    ELSE IF ~r.exists THEN [files |-> <<>>, cache |-> c, scanned |-> FALSE]
    ELSE [files |-> sorted(scan(r)),
          cache |-> [set |-> TRUE, files |-> sorted(scan(r))],
          scanned |-> TRUE]

\* The history after a call of get_available_files that returned g.
record_call(h, g) ==
    [called |-> TRUE,
     first |-> IF h.called THEN h.first ELSE g.files,
     scanned |-> h.scanned \/ g.scanned,
     scan |-> IF ~h.scanned /\ g.scanned THEN g.files ELSE h.scan]

GetAvailableFiles ==
    LET g == get_available_files(root, cache) IN
    /\ cache' = g.cache
    /\ hist' = record_call(hist, g)
    /\ ret' = [op |-> "files", files |-> g.files, scanned |-> g.scanned]
    /\ UNCHANGED <<rawfile, root, batch>>

\* a + b, kept over the common denominator when the two share one.
Add(a, b) ==
    IF a.d = b.d THEN Num(a.n + b.n, a.d) ELSE Num(a.n * b.d + b.n * a.d, a.d * b.d)
RECURSIVE SumVals(_)
SumVals(s) == IF s = <<>> THEN Num(0, 1) ELSE Add(Head(s), SumVals(Tail(s)))

\* Faulty variant: the mean is left as the sum of the values.
calculate_statistics_mean_is_sum(data_points) ==
    IF Len(data_points) = 0 THEN [empty |-> TRUE]
    ELSE LET values == [i \in 1..Len(data_points) |-> data_points[i].ndvi_value]
         IN [empty |-> FALSE, min |-> MinSeq(values), max |-> MaxSeq(values),
             mean |-> SumVals(values), count |-> Len(values)]

\* NDVIService._calculate_statistics
calculate_statistics(data_points) ==
    IF Len(data_points) = 0 THEN [empty |-> TRUE]
    ELSE LET values == [i \in 1..Len(data_points) |-> data_points[i].ndvi_value]
             sum == SumVals(values)
         IN [empty |-> FALSE, min |-> MinSeq(values), max |-> MaxSeq(values),
             mean |-> Num(sum.n, sum.d * Len(values)), count |-> Len(values)]

InRange(start_year, end_year, e) == start_year <= e.year /\ e.year <= end_year

\* Faulty variant: a month without a value is kept as a point holding None.
RECURSIVE data_points_with_nulls(_, _, _, _)
data_points_with_nulls(r, files, lat, lon) ==
    IF files = <<>> THEN <<>>
    ELSE LET e == Head(files)
             t == extract_point_value(r, e.path, lat, lon)
         IN <<[year |-> e.year, month |-> e.month,
               date |-> <<fmt_d(e.year), fmt_02d(e.month), "01">>,
               ndvi_value |-> t.val, latitude |-> lat, longitude |-> lon]>>
            \o data_points_with_nulls(r, Tail(files), lat, lon)

\* The loop of get_time_series over the filtered files.
RECURSIVE data_points_of(_, _, _, _)
data_points_of(r, files, lat, lon) ==
    IF files = <<>> THEN <<>>
    ELSE LET e == Head(files)
             t == extract_point_value(r, e.path, lat, lon)
             rest == data_points_of(r, Tail(files), lat, lon)
         IN IF t.val # None
            THEN <<[year |-> e.year, month |-> e.month,
                    date |-> <<fmt_d(e.year), fmt_02d(e.month), "01">>,
                    ndvi_value |-> t.val, latitude |-> lat, longitude |-> lon]>>
                 \o rest
            ELSE rest

RECURSIVE filter_years(_, _, _)
filter_years(files, start_year, end_year) ==
    IF files = <<>> THEN <<>>
    ELSE IF InRange(start_year, end_year, Head(files))
         THEN <<Head(files)>> \o filter_years(Tail(files), start_year, end_year)
         ELSE filter_years(Tail(files), start_year, end_year)

\* NDVIService.get_time_series
GetTimeSeries(lat, lon, start_year, end_year) ==
    LET g == get_available_files(root, cache)
        filtered_files == filter_years(g.files, start_year, end_year)
        data_points == data_points_of(root, filtered_files, lat, lon)
    IN
    /\ cache' = g.cache
    /\ hist' = record_call(hist, g)
    /\ ret' = [op |-> "series", lat |-> lat, lon |-> lon,
               start_year |-> start_year, end_year |-> end_year,
               data |-> data_points,
               statistics |-> calculate_statistics(data_points)]
    /\ UNCHANGED <<rawfile, root, batch>>

----------------------------------------------------------------------------
(* SpecQuant: one raw pixel through the encoder and back through a point   *)
(* query.  The raw raster is a single pixel covering the region.           *)

RawPixels == {Num(k, Den) : k \in -(Den + Over) .. (Den + Over)} \cup {NaN}

QStem == <<"tenggeli", "ndvi", "2020", "03">>
QSlot == <<"2020", "03">>
\* The query point of the router's /test endpoint: 38.2 N, 104.0 E.
QLat == 382
QLon == 1040

OnePixel(v) ==
    Raster("none", "float32", None, "epsg4326",
           required_west, required_north, required_east - required_west, 1, 1,
           <<v>>, FALSE, <<>>)

QInit ==
    /\ rawfile \in {[stem |-> QStem, ds |-> OnePixel(v)] : v \in RawPixels}
    /\ root = NoRoot
    /\ cache = NoCache
    /\ ret = [op |-> "none"]
    /\ hist = NoHist
    /\ batch = NoBatch

QExtract == ExtractPointValue(QSlot, QLat, QLon)

QNext == Encode \/ QExtract

SpecQuant == QInit /\ [][QNext]_vars

\* The raw pixel, and the byte the encoder stored for it.
QRaw == rawfile.ds.pix[1]
QEncoded == path_exists(root, QSlot) /\ root.dirs[QSlot].tif.fault = "none"
QByte == root.dirs[QSlot].tif.pix[1]

\* Python's round(): to the nearest integer, ties to the even one.
RoundHalfEven(x) ==
    LET f == x.n \div x.d
        r2 == 2 * (x.n - f * x.d)
    IN IF r2 < x.d THEN f
       ELSE IF r2 > x.d THEN f + 1
       ELSE IF f % 2 = 0 THEN f ELSE f + 1

\* C1: for every valid raw value v in [-1, 1], the byte the encoder stores
\* for v, mapped back with raw/255*2-1, is within 1/255 of v.
C1_RoundTripWithinHalfStep ==
    (QEncoded /\ is_valid(QRaw)) => Within(dequantize(QByte), QRaw, 1, 255)

\* C2: the encoder never stores byte 0 for a valid raw value v with
\* -1 < v <= 1; such a pixel gets a byte in 1..255.
C2_ValidPixelNeverZero ==
    (QEncoded /\ is_valid(QRaw) /\ Lt(Num(-1, 1), QRaw))
        => (QByte.n >= 1 /\ QByte.n <= 255)

\* C3: the stored byte is round((v + 1) / 2 * 255) for a valid v and 0 for
\* every other pixel.
C3_ByteIsRounded ==
    QEncoded =>
        QByte.n = (IF is_valid(QRaw) THEN RoundHalfEven(normalized(QRaw)) ELSE 0)

\* How many pixels of the written raster are not byte 0, and for how many a
\* point query returns a value (the raster has the one pixel, which holds
\* the query point).
NonZeroBytes == IF QByte.n # 0 THEN 1 ELSE 0
Queryable == IF extract_point_value(root, QSlot, QLat, QLon).val # None THEN 1 ELSE 0

\* C30: after a successful encode the count of the metadata record is the
\* number of non-zero pixels of the raster written with it, which is the
\* number of pixels a point query returns a value for.
C30_CountIsNonZeroBytes ==
    (ret.op = "encode" /\ ret.success) =>
        /\ root.dirs[QSlot].meta.count = Num(NonZeroBytes, 1)
        /\ ret.stats.count = Num(NonZeroBytes, 1)
        /\ NonZeroBytes = Queryable

\* The last step was the point query, made on the raster encoded from the
\* raw pixel.
QQueried == ret.op = "extract" /\ QEncoded /\ root.dirs[QSlot].tif = encoded_tif(rawfile.ds)

\* C24: for every valid raw value v in [-1, 1] the stored byte b, mapped
\* back as b/255*2 - 1, differs from v by at most 2/255, and so does every
\* non-null value a point query returns for it; for the raster of uniform
\* value 0.5 the query returns a non-null value within 0.00784 of 0.5.
C24_RoundTripWithinOneStep ==
    /\ (QEncoded /\ is_valid(QRaw)) =>
          Within(Num(2 * QByte.n - 255, 255), QRaw, 2, 255)
    /\ (QQueried /\ is_valid(QRaw) /\ ret.val # None) =>
          Within(ret.val, QRaw, 2, 255)
    /\ (QQueried /\ Eq(QRaw, Num(1, 2))) =>
          (ret.val # None /\ Within(ret.val, Num(1, 2), 784, 100000))

\* C24 witness: the raw value 0.5 was encoded and queried; the query
\* returned a number other than 0.5.
C24_Witness ==
    /\ QQueried /\ Eq(QRaw, Num(1, 2))
    /\ IsNum(ret.val) /\ ~Eq(ret.val, Num(1, 2))

----------------------------------------------------------------------------
(* SpecPoint: point queries against one slot holding any raster (of any    *)
(* storage type, nodata declaration, mask, CRS and geometry), or against   *)
(* the raster the encoder writes for a raw raster of the region.           *)

\* Raw values a raster of each storage type may hold.
RawValues(dtype) ==
    CASE dtype = "uint8" -> {Num(k, 1) : k \in {0, 1, 127, 128, 254, 255}}
      [] dtype = "uint16" -> {Num(k, 1) : k \in {0, 1, 255, 256, 1000}}
      [] dtype = "int16" -> {Num(k, 1) : k \in {-300, -1, 0, 1, 255, 256}}
      [] OTHER -> {Num(k, Den) : k \in {-(Den + Over), -Den, 0, Den, Den + Over}}
                  \cup {NaN, Num(-9999, 1)}

\* The nodata values a raster of each storage type may declare.
NodataValues(dtype) ==
    CASE dtype = "uint8" -> {None, Num(0, 1), Num(255, 1)}
      [] dtype = "uint16" -> {None, Num(0, 1), Num(1000, 1)}
      [] dtype = "int16" -> {None, Num(0, 1), Num(-300, 1)}
      [] OTHER -> {None, NaN, Num(-9999, 1), Num(0, 1)}

DTypes == {"uint8", "uint16", "int16", "float32"}
Faults == {"none", "open", "read"}

\* Single-pixel rasters covering the region, of every storage description.
PixelRasters ==
    { Raster(fault, dtype, nodata, "epsg4326",
             required_west, required_north, required_east - required_west, 1, 1,
             <<v>>, mk[1], mk[2]) :
        fault \in Faults, dtype \in DTypes,
        nodata \in UNION {NodataValues(d) : d \in DTypes},
        v \in UNION {RawValues(d) : d \in DTypes},
        mk \in {<<FALSE, <<>>>>, <<TRUE, <<FALSE>>>>, <<TRUE, <<TRUE>>>>} }

\* A raster that fails on open or on read is taken without a mask: its
\* pixels are never decoded.
WellTyped(ds) ==
    /\ ds.fault # "none" => ~ds.hasmask
    /\ ds.nodata \in NodataValues(ds.dtype)
    /\ \A i \in 1..Len(ds.pix) : ds.pix[i] \in RawValues(ds.dtype)

\* Geometries <<left, top, res, width, height>>:
\*   the region itself as 2 x 2 pixels; a 2 x 1 raster that overlaps the
\*   region and also spans the origin; the region in the coordinates
\*   rio_transform gives it.
GeoRegion == <<required_west, required_north, 11, 2, 2>>
GeoWide == <<-100, 400, 600, 2, 1>>
GeoProjected == <<2 * required_west + 70, 3 * required_north - 50, 23, 2, 2>>
Geometries == {GeoRegion, GeoWide, GeoProjected}

\* Four distinct bytes, so that a read of the wrong pixel shows.
GridBytes == <<Num(10, 1), Num(20, 1), Num(30, 1), Num(40, 1)>>

GridRasters ==
    { Raster("none", "uint8", None, crs, g[1], g[2], g[3], g[4], g[5],
             SubSeq(GridBytes, 1, g[4] * g[5]), FALSE, <<>>) :
        crs \in CrsKinds, g \in Geometries }

\* Raw float rasters handed to the encoder.
RawGrid == <<Num(Den \div 2, Den), Num(-Den, Den), NaN, Num(Den, Den)>>
RawRasters ==
    { Raster("none", "float32", None, crs, g[1], g[2], g[3], g[4], g[5],
             SubSeq(RawGrid, 1, g[4] * g[5]), FALSE, <<>>) :
        crs \in {"epsg4326", "none"}, g \in Geometries }

PStem == <<"tenggeli", "ndvi", "2020", "03">>
PSlot == <<"2020", "03">>
OneSlot(tif) ==
    [exists |-> TRUE, dirs |-> [n \in {PSlot} |-> [tif |-> tif, meta |-> NoFile]]]

\* Query points <<lat, lon>>: the /test point, the origin, just north and
\* just west of the region raster, its far corner (the first row and column
\* past the raster), and a point of its last pixel.
Queries ==
    { <<382, 1040>>, <<0, 0>>, <<391, 1040>>, <<382, 1029>>,
      <<368, 1052>>, <<379, 1041>> }

PPaths == {EmptyPath, PSlot, <<"2021", "01">>}

PInit ==
    /\ cache = NoCache
    /\ ret = [op |-> "none"]
    /\ hist = NoHist
    /\ batch = NoBatch
    /\ \/ /\ rawfile = [stem |-> PStem, ds |-> OnePixel(Num(0, Den))]
          /\ root \in {NoRoot, OneSlot(NoFile)}
                      \cup {OneSlot(ds) : ds \in {d \in PixelRasters : WellTyped(d)}}
                      \cup {OneSlot(ds) : ds \in GridRasters}
       \/ /\ rawfile \in {[stem |-> PStem, ds |-> ds] : ds \in RawRasters}
          /\ root = NoRoot

PExtract ==
    \E path \in PPaths, q \in Queries : ExtractPointValue(path, q[1], q[2])

PGetValue ==
    \E year \in {2020, 2021}, q \in Queries :
        GetValue(year, 3, q[1], q[2])

PGetTimeSeries ==
    \E q \in {<<QLat, QLon>>, <<0, 0>>} : GetTimeSeries(q[1], q[2], 2020, 2021)

PNext == Encode \/ PExtract \/ PGetValue \/ PGetTimeSeries

SpecPoint == PInit /\ [][PNext]_vars

\* The last point query (extract_point_value, directly or through
\* get_value), the raster it addressed and the pixel its coordinate names.
IsPointQuery == ret.op \in {"extract", "get_value"}
RetHit == IsPointQuery /\ path_exists(root, ret.path)
RetDs == root.dirs[ret.path].tif
RetXY == to_dataset_crs(RetDs, ret.lon, ret.lat)
RetRow == (RetDs.top - RetXY[2]) \div RetDs.res
RetCol == (RetXY[1] - RetDs.left) \div RetDs.res
RetInside ==
    0 <= RetRow /\ RetRow < RetDs.height /\ 0 <= RetCol /\ RetCol < RetDs.width
RetIdx == RetRow * RetDs.width + RetCol + 1
RetRaw == RetDs.pix[RetIdx]
RetMasked == pixel_masked(RetDs, RetIdx)
\* The query reached a pixel of a readable raster.
RetOnPixel == RetHit /\ RetDs.fault = "none" /\ RetInside

InUnit(v) == Le(Num(-1, 1), v) /\ Le(v, Num(1, 1))
\* val is v when v lies in [-1, 1], and None when it does not.
IsChecked(val, v) == IF InUnit(v) THEN Eq(val, v) ELSE val = None

\* C7 (as stated): on an integer raster, whatever nodata value it declares,
\* a pixel whose raw value is 0 yields None, and a non-zero unmasked raw
\* value r (other than the declared nodata value) yields r/255*2 - 1.
C7_ZeroIsNoDataWhateverDeclared ==
    (RetOnPixel /\ is_integer_dtype(RetDs.dtype)) =>
        /\ Eq(RetRaw, Num(0, 1)) => ret.val = None
        /\ (~Eq(RetRaw, Num(0, 1)) /\ ~RetMasked /\ ~Eq(RetRaw, RetDs.nodata))
               => IsChecked(ret.val, dequantize(RetRaw))

\* C7 (amended): raw 0 yields None when the raster declares no nodata value
\* or declares 0, or when the pixel is masked; when the raster declares a
\* non-zero nodata value an unmasked raw 0 is returned as 0/255*2 - 1 = -1;
\* a non-zero unmasked raw value r other than the declared nodata value
\* yields r/255*2 - 1 (None when that is outside [-1, 1]).
C7_ZeroIsNoDataUnlessDeclaredOtherwise ==
    (RetOnPixel /\ is_integer_dtype(RetDs.dtype)) =>
        /\ (Eq(RetRaw, Num(0, 1))
              /\ (RetDs.nodata = None \/ Eq(RetDs.nodata, Num(0, 1)) \/ RetMasked))
               => ret.val = None
        /\ (Eq(RetRaw, Num(0, 1))
              /\ RetDs.nodata # None /\ ~Eq(RetDs.nodata, Num(0, 1)) /\ ~RetMasked)
               => Eq(ret.val, Num(-1, 1))
        /\ (~Eq(RetRaw, Num(0, 1)) /\ ~RetMasked /\ ~Eq(RetRaw, RetDs.nodata))
               => IsChecked(ret.val, dequantize(RetRaw))

\* C7 witness: an unmasked raw 0 of a uint8 raster declaring nodata 255
\* was queried and came back as -1.
C7_Witness ==
    /\ RetOnPixel /\ ret.op = "extract"
    /\ RetDs.dtype = "uint8" /\ RetDs.nodata = Num(255, 1)
    /\ Eq(RetRaw, Num(0, 1)) /\ ~RetMasked
    /\ Eq(ret.val, Num(-1, 1))

\* C8: every value a point query returns (extract_point_value, get_value)
\* is None or a number in [-1, 1], and every data point of a time series
\* holds a number in [-1, 1], for every storage type and raw value.
C8_ValueNoneOrInUnit ==
    /\ IsPointQuery => (ret.val = None \/ InUnit(ret.val))
    /\ ret.op = "series" =>
           \A i \in 1..Len(ret.data) : InUnit(ret.data[i].ndvi_value)

\* C8 witness: a 16-bit raw value above 255, unmasked and not the declared
\* nodata value, was read and rejected.
C8_Witness ==
    /\ RetOnPixel /\ RetDs.dtype = "uint16"
    /\ Lt(Num(255, 1), RetRaw) /\ ~RetMasked /\ ~Eq(RetRaw, RetDs.nodata)
    /\ ret.nread = 1 /\ ret.val = None

\* The raster in the slot is the one the encoder wrote for the raw file
\* (the encoder writes only rasters that pass validate_geographic_bounds).
RetEncoded == RetHit /\ RetDs = encoded_tif(rawfile.ds)
\* The raster's extent holds the point x = 0, y = 0.
HoldsOrigin(ds) ==
    /\ bounds_left(ds) <= 0 /\ 0 < bounds_right(ds)
    /\ bounds_bottom(ds) < 0 /\ 0 <= bounds_top(ds)

\* extract_point_value returns None, having read no pixel, when the
\* (row, col) of the query lies outside the raster.
OutsideGivesNone ==
    (ret.op = "extract" /\ RetHit /\ RetDs.fault # "open" /\ ~RetInside)
        => (ret.val = None /\ ret.nread = 0)

\* C10 (as stated): a query outside the raster returns None without a read,
\* and the query (lat=0, lon=0) returns None against every raster the
\* encoder wrote.
C10_OriginNoneForEveryEncoded ==
    /\ OutsideGivesNone
    /\ (ret.op = "extract" /\ RetEncoded /\ ret.lat = 0 /\ ret.lon = 0)
           => ret.val = None

\* C10 (amended): a query outside the raster returns None without a read,
\* and the query (lat=0, lon=0) returns None, without a read, against every
\* raster the encoder wrote whose extent does not hold the origin.
C10_OriginNoneUnlessExtentHoldsIt ==
    /\ OutsideGivesNone
    /\ (ret.op = "extract" /\ RetEncoded /\ ret.lat = 0 /\ ret.lon = 0
          /\ ~HoldsOrigin(RetDs))
           => (ret.val = None /\ ret.nread = 0)

\* C10 witness: the origin was queried against the raster the encoder wrote
\* for the region, and nothing was read.
C10_Witness ==
    /\ ret.op = "extract" /\ RetEncoded /\ ret.lat = 0 /\ ret.lon = 0
    /\ ~HoldsOrigin(RetDs) /\ ~RetInside
    /\ bounds_left(RetDs) = required_west /\ bounds_top(RetDs) = required_north
    /\ ret.val = None /\ ret.nread = 0

----------------------------------------------------------------------------
(* SpecStats: map statistics of one slot holding any two-pixel raster, or  *)
(* the raster the encoder writes for a two-pixel raw raster.               *)

TwoPixels(fault, dtype, nodata, a, b, hasmask, mask) ==
    Raster(fault, dtype, nodata, "epsg4326",
           required_west, required_north, 11, 2, 1, <<a, b>>, hasmask, mask)

StatRasters ==
    UNION { { TwoPixels(fault, dtype, nodata, a, b, mk[1], mk[2]) :
                fault \in Faults, nodata \in NodataValues(dtype),
                a \in RawValues(dtype), b \in RawValues(dtype),
                mk \in {<<FALSE, <<>>>>, <<TRUE, <<FALSE, FALSE>>>>,
                        <<TRUE, <<TRUE, FALSE>>>>, <<TRUE, <<TRUE, TRUE>>>>} } :
            dtype \in DTypes }

StatRawValues == {NaN, Num(Den + Over, Den), Num(-Den, Den), Num(1 - Den, Den),
                  Num(0, Den), Num(Den, Den)}
StatRawRasters ==
    { TwoPixels("none", "float32", None, a, b, FALSE, <<>>) :
        a \in StatRawValues, b \in StatRawValues }

SInit ==
    /\ cache = NoCache
    /\ ret = [op |-> "none"]
    /\ hist = NoHist
    /\ batch = NoBatch
    /\ \/ /\ rawfile = [stem |-> PStem, ds |-> OnePixel(Num(0, Den))]
          /\ root \in {NoRoot, OneSlot(NoFile)} \cup {OneSlot(ds) : ds \in StatRasters}
       \/ /\ rawfile \in {[stem |-> PStem, ds |-> ds] : ds \in StatRawRasters}
          /\ root = NoRoot

SStats == \E year \in {2020, 2021} : GetMapStatistics(year, 3)

SNext == Encode \/ SStats

SpecStats == SInit /\ [][SNext]_vars

\* The last statistics query, the raster it addressed, and what a point
\* query returns for each pixel of the sample.
StatsHit == ret.op = "stats" /\ path_exists(root, ret.path)
StatsDs == root.dirs[ret.path].tif
StatsOnRaster == StatsHit /\ StatsDs.fault = "none"
IsSome(v) == v # None
PointValues(ds) ==
    LET sd == sample_data(ds) IN
    SelectSeq([k \in 1..Len(sd) |-> decode_pixel(ds, sd[k])], IsSome)

\* C4: for an integer raster the sampler's statistics are those of the
\* non-null values a point query returns for the sampled pixels: the same
\* count (no record when there is none), the same min and max.
C4_SamplerAgreesWithPointQuery ==
    (StatsOnRaster /\ is_integer_dtype(StatsDs.dtype)) =>
        LET pv == PointValues(StatsDs) IN
        IF Len(pv) = 0 THEN ret.stats.empty
        ELSE /\ ~ret.stats.empty
             /\ ret.stats.count = Len(pv)
             /\ Eq(ret.stats.min, MinSeq(pv))
             /\ Eq(ret.stats.max, MaxSeq(pv))

\* Every pixel of the raster is byte 0.
AllZero(ds) == \A i \in 1..Len(ds.pix) : Eq(ds.pix[i], Num(0, 1))

\* C5: the statistics are empty when the raster is absent, cannot be read,
\* or has no valid sampled pixel; a raster the encoder wrote whose pixels
\* are all byte 0 yields the empty result.
C5_EmptyWhenNothingValid ==
    /\ (ret.op = "stats" /\ ~path_exists(root, ret.path)) => ret.stats.empty
    /\ (StatsHit /\ StatsDs.fault # "none") => ret.stats.empty
    /\ (StatsOnRaster /\ Len(PointValues(StatsDs)) = 0) => ret.stats.empty
    /\ (StatsOnRaster /\ StatsDs = encoded_tif(rawfile.ds) /\ AllZero(StatsDs))
           => ret.stats.empty

----------------------------------------------------------------------------
(* Spec: the serving process over a disk that changes under it.  The       *)
(* directories of the processed root come and go and are filled by the     *)
(* encoder; the service answers listings, point queries, statistics and    *)
(* time series in any order.                                               *)

\* The slot directories that come and go.
SlotNames == {<<"2020", "03">>, <<"2021", "01">>}

\* What a slot may hold: the raster the encoder writes for a half-valued
\* pixel, the torn raster of a failed write, a file that does not open as a
\* raster, and the metadata record.
GoodTif == encoded_tif(OnePixel(Num(Den \div 2, Den)))
TornTif == torn_tif(OnePixel(Num(Den \div 2, Den)))
BadTif == [GoodTif EXCEPT !.fault = "open"]
SlotMeta == encoder_stats(OnePixel(Num(Den \div 2, Den)))
SlotContents ==
    {[tif |-> t, meta |-> m] :
        t \in {NoFile, GoodTif, TornTif, BadTif}, m \in {NoFile, SlotMeta}}

Init ==
    /\ rawfile = [stem |-> PStem, ds |-> OnePixel(Num(Den \div 2, Den))]
    /\ root = NoRoot
    /\ cache = NoCache
    /\ ret = [op |-> "none"]
    /\ hist = NoHist
    /\ batch = NoBatch

\* The environment creates the processed root.
CreateRoot ==
    /\ ~root.exists
    /\ root' = [exists |-> TRUE, dirs |-> NoDirs]
    /\ ret' = [op |-> "disk"]
    /\ UNCHANGED <<rawfile, cache, hist, batch>>

\* The environment (the encoder, an operator) creates or rewrites a slot.
WriteSlot ==
    \E name \in SlotNames, c \in SlotContents :
        /\ root' = [exists |-> TRUE,
                    dirs |-> [n \in (DOMAIN root.dirs) \cup {name} |->
                                  IF n = name THEN c ELSE root.dirs[n]]]
        /\ root' # root
        /\ ret' = [op |-> "disk"]
        /\ UNCHANGED <<rawfile, cache, hist, batch>>

\* The environment removes the processed root and all it holds.
RemoveRoot ==
    /\ root.exists
    /\ root' = NoRoot
    /\ ret' = [op |-> "disk"]
    /\ UNCHANGED <<rawfile, cache, hist, batch>>

\* The environment removes a slot directory.
RemoveSlot ==
    \E name \in DOMAIN root.dirs :
        /\ root' = [root EXCEPT !.dirs = [n \in (DOMAIN root.dirs) \ {name} |-> root.dirs[n]]]
        /\ ret' = [op |-> "disk"]
        /\ UNCHANGED <<rawfile, cache, hist, batch>>

SQueries == {<<382, 1040>>, <<0, 0>>}

SExtract ==
    \E path \in SlotNames \cup {EmptyPath}, q \in SQueries :
        ExtractPointValue(path, q[1], q[2])

SGetValue ==
    \E year \in {2020, 2021}, month \in {1, 3} :
        GetValue(year, month, QLat, QLon)

SGetMapStatistics ==
    \E year \in {2020, 2021}, month \in {1, 3} : GetMapStatistics(year, month)

SGetTimeSeries ==
    \E start_year \in {2020, 2021}, end_year \in {2020, 2021} :
        /\ start_year <= end_year
        /\ GetTimeSeries(QLat, QLon, start_year, end_year)

Next ==
    \/ CreateRoot
    \/ RemoveRoot
    \/ WriteSlot
    \/ RemoveSlot
    \/ GetAvailableFiles
    \/ SExtract
    \/ SGetValue
    \/ SGetMapStatistics
    \/ SGetTimeSeries

Spec == Init /\ [][Next]_vars

\* C6 (as stated): every listing after the first is the sequence the first
\* listing returned, whatever happened on disk in between.
C6_EveryListingIsTheFirst ==
    ret.op = "files" => ret.files = hist.first

\* C6 (amended): every listing is the sequence computed by the first call
\* made while the processed root existed; until such a call has been made a
\* listing is empty, the root does not exist and nothing is cached.
C6_EveryListingIsTheFirstScan ==
    ret.op = "files" =>
        IF hist.scanned
        THEN ret.files = hist.scan /\ cache = [set |-> TRUE, files |-> hist.scan]
        ELSE ret.files = <<>> /\ ~root.exists /\ cache = NoCache

\* C6 witness: a listing returned the first scan although the disk no
\* longer holds what that scan saw.
C6_Witness ==
    /\ ret.op = "files" /\ hist.scanned /\ root.exists
    /\ ret.files = hist.scan
    /\ ret.files # sorted(scan(root))

\* C9: extract_point_value never raises to its caller; for an empty path, a
\* path that does not exist and a raster whose open or read fails it
\* returns None, and the call leaves the catalog cache as it was.
C9_ExtractNeverRaises ==
    [][ret'.op = "extract" =>
          /\ ~ret'.raised
          /\ (\/ ret'.path = EmptyPath
              \/ ~path_exists(root, ret'.path)
              \/ root.dirs[ret'.path].tif.fault # "none")
                 => (ret'.val = None /\ cache' = cache /\ root' = root)]_vars

\* C9 witness: with the catalog cached, a query whose pixel read failed
\* came back as None.
C9_Witness ==
    /\ ret.op = "extract" /\ path_exists(root, ret.path)
    /\ root.dirs[ret.path].tif.fault = "read"
    /\ ret.nread = 1 /\ ret.val = None /\ ~ret.raised
    /\ cache.set /\ Len(cache.files) > 0

----------------------------------------------------------------------------
(* SpecCatalog: the catalog scan and the time series over a processed root *)
(* that holds any small set of directories, some of which do not name a    *)
(* slot, and from which directories disappear after the listing was cached.*)

\* Directory names under the root: slots, the same slot written 2020_3, a
\* name whose month is no integer, a name without '_', a name of three parts.
CatNames ==
    { <<"2020", "03">>, <<"2020", "04">>, <<"2020", "05">>, <<"2020", "3">>,
      <<"2021", "01">>, <<"2020", "xx">>, <<"tmp">>, <<"2020", "03", "tmp">> }

\* Rasters of one pixel covering the region: two different valid values and
\* the raster of a raw NaN (byte 0).
TifA == encoded_tif(OnePixel(Num(Den \div 2, Den)))
TifB == encoded_tif(OnePixel(Num(-(Den \div 5), Den)))
TifZero == encoded_tif(OnePixel(NaN))
CatMeta == encoder_stats(OnePixel(NaN))
CatContents ==
    { EmptyDir, [tif |-> NoFile, meta |-> CatMeta], [tif |-> TifA, meta |-> CatMeta],
      [tif |-> TifB, meta |-> NoFile], [tif |-> TifZero, meta |-> CatMeta] }

\* How many directories the enumerated roots hold at most.
MaxCatDirs == 2

RootOf(f) == [exists |-> TRUE, dirs |-> f]

\* Larger roots: the slots 03 and 05 with 04 absent; the same with 04 and a
\* non-slot directory holding only metadata; one slot under two spellings
\* beside directories that name no slot.
CatPicked ==
    { RootOf([n \in {<<"2020", "03">>, <<"2020", "05">>} |->
                 IF n = <<"2020", "03">> THEN [tif |-> TifA, meta |-> CatMeta]
                 ELSE [tif |-> TifB, meta |-> NoFile]]),
      RootOf([n \in {<<"2020", "03">>, <<"2020", "04">>, <<"2020", "05">>,
                     <<"2020", "xx">>, <<"2021", "01">>} |->
                 CASE n = <<"2020", "03">> -> [tif |-> TifB, meta |-> NoFile]
                   [] n = <<"2020", "05">> -> [tif |-> TifA, meta |-> CatMeta]
                   [] n = <<"2021", "01">> -> [tif |-> TifZero, meta |-> CatMeta]
                   [] OTHER -> [tif |-> NoFile, meta |-> CatMeta]]),
      RootOf([n \in {<<"2020", "3">>, <<"2020", "03">>, <<"2020", "03", "tmp">>,
                     <<"tmp">>} |->
                 CASE n = <<"2020", "03", "tmp">> -> [tif |-> TifA, meta |-> CatMeta]
                   [] n = <<"tmp">> -> EmptyDir
                   [] OTHER -> [tif |-> NoFile, meta |-> CatMeta]]) }

CatRoots ==
    {NoRoot}
    \cup CatPicked
    \cup UNION { {RootOf(f) : f \in [D -> CatContents]} :
                   D \in {X \in SUBSET CatNames : Cardinality(X) <= MaxCatDirs} }

CInit ==
    /\ rawfile = [stem |-> PStem, ds |-> OnePixel(NaN)]
    /\ root \in CatRoots
    /\ cache = NoCache
    /\ ret = [op |-> "none"]
    /\ hist = NoHist
    /\ batch = NoBatch

CQueries == {<<QLat, QLon>>, <<0, 0>>}
CRanges == {<<2020, 2020>>, <<2020, 2021>>, <<2021, 2021>>, <<2021, 2020>>}

CGetTimeSeries ==
    \E q \in CQueries, yr \in CRanges : GetTimeSeries(q[1], q[2], yr[1], yr[2])

CNext == GetAvailableFiles \/ CGetTimeSeries \/ RemoveSlot

SpecCatalog == CInit /\ [][CNext]_vars

\* The year and month of a precede those of b, or equal them.
YearMonthLe(a, b) == a.year < b.year \/ (a.year = b.year /\ a.month <= b.month)

\* The catalog the service holds after a call.
Catalog == cache.files
\* An entry of the catalog that the series just returned has to show: its
\* year lies in the range asked for and the point query on its path gives
\* a value.
SeriesEmits(e) ==
    /\ ret.start_year <= e.year /\ e.year <= ret.end_year
    /\ extract_point_value(root, e.path, ret.lat, ret.lon).val # None

\* C11: the data of a time series are the catalog entries of the year range,
\* in the catalog's ascending (year, month) order, for which the point query
\* returns a value, each with that value; an entry without a value
\* contributes no point, and no point holds None.
C11_SeriesIsCatalogInRangeWithValue ==
    ret.op = "series" =>
        LET want == SelectSeq(Catalog, SeriesEmits) IN
        /\ Len(ret.data) = Len(want)
        /\ \A i \in 1..Len(ret.data) :
              /\ i <= Len(want)
              /\ ret.data[i].year = want[i].year
              /\ ret.data[i].month = want[i].month
              /\ ret.data[i].ndvi_value # None
              /\ ret.data[i].ndvi_value =
                     extract_point_value(root, want[i].path, ret.lat, ret.lon).val
        /\ \A i, j \in 1..Len(ret.data) :
              i < j => YearMonthLe(ret.data[i], ret.data[j])

\* C11 witness: 2020-03 and 2020-05 hold a value at the point, 2020-04 is
\* absent, and the series of 2020 has exactly those two points.
C11_Witness ==
    /\ ret.op = "series" /\ ret.start_year = 2020 /\ ret.end_year = 2020
    /\ path_exists(root, <<"2020", "03">>) /\ path_exists(root, <<"2020", "05">>)
    /\ <<"2020", "04">> \notin DOMAIN root.dirs
    /\ Len(ret.data) = 2
    /\ ret.data[1].month = 3 /\ ret.data[2].month = 5

\* C12: the statistics of a time series are those of its data points: none
\* when there is no point; else count is their number, min and max the
\* least and greatest value, mean their sum over count, min <= mean <= max.
C12_StatisticsOfEmittedPoints ==
    ret.op = "series" =>
        LET d == ret.data
            st == ret.statistics
            values == [i \in 1..Len(d) |-> d[i].ndvi_value]
        IN IF Len(d) = 0 THEN st.empty
           ELSE /\ ~st.empty
                /\ st.count = Len(d)
                /\ \E i \in 1..Len(d) : Eq(st.min, values[i])
                /\ \A i \in 1..Len(d) : Le(st.min, values[i])
                /\ \E i \in 1..Len(d) : Eq(st.max, values[i])
                /\ \A i \in 1..Len(d) : Le(values[i], st.max)
                /\ Eq(Num(st.mean.n * st.count, st.mean.d), SumVals(values))
                /\ Le(st.min, st.mean) /\ Le(st.mean, st.max)

\* C12 witness: a series of two points with different values.
C12_Witness ==
    /\ ret.op = "series" /\ Len(ret.data) = 2
    /\ Lt(ret.data[1].ndvi_value, ret.data[2].ndvi_value)
    /\ ret.statistics.count = 2
    /\ Lt(ret.statistics.min, ret.statistics.mean)

\* C29: the catalog holds at most one entry for a (year, month); an entry
\* with a path names the raster get_value and get_map_statistics open for
\* its (year, month); a time series has no two points of the same month.
C29_OneEntryPerSlot ==
    /\ \A i, j \in 1..Len(Catalog) :
          (Catalog[i].year = Catalog[j].year /\ Catalog[i].month = Catalog[j].month)
              => i = j
    /\ \A i \in 1..Len(Catalog) :
          Catalog[i].path # EmptyPath
              => Catalog[i].path = slot_path(Catalog[i].year, Catalog[i].month)
    /\ ret.op = "series" =>
          \A i, j \in 1..Len(ret.data) :
              (ret.data[i].year = ret.data[j].year /\ ret.data[i].month = ret.data[j].month)
                  => i = j

\* The directory names a slot and holds the raster or the metadata record.
NamesSlot(name) == Len(name) = 2 /\ IsIntTok(name[1]) /\ IsIntTok(name[2])
HoldsSlotData(name) == IsFile(root.dirs[name].tif) \/ IsFile(root.dirs[name].meta)
\* The entry such a directory has in the listing.
SlotEntry(name) ==
    [year |-> py_int(name[1]), month |-> py_int(name[2]),
     path |-> IF IsFile(root.dirs[name].tif) THEN name ELSE EmptyPath]

\* C13: a listing computed by a scan has one entry for each directory
\* <year>_<month> that holds the raster or the metadata record, with the
\* raster's path or the empty path, nothing for any other directory, and is
\* ascending in (year, month).
C13_ScanListsQualifyingDirectories ==
    (ret.op = "files" /\ ret.scanned) =>
        LET Q == {n \in DOMAIN root.dirs : NamesSlot(n) /\ HoldsSlotData(n)} IN
        /\ Len(ret.files) = Cardinality(Q)
        /\ \A n \in Q :
              Cardinality({i \in 1..Len(ret.files) : ret.files[i] = SlotEntry(n)})
                  = Cardinality({m \in Q : SlotEntry(m) = SlotEntry(n)})
        /\ \A i \in 1..Len(ret.files) : \E n \in Q : ret.files[i] = SlotEntry(n)
        /\ \A i, j \in 1..Len(ret.files) :
              i < j => YearMonthLe(ret.files[i], ret.files[j])

\* C13 witness: a scan of a root holding a raster slot, metadata-only slots
\* and a directory with metadata whose name is no slot listed the slots,
\* one of them with the empty path.
C13_Witness ==
    /\ ret.op = "files" /\ ret.scanned
    /\ \E n \in DOMAIN root.dirs : ~NamesSlot(n) /\ IsFile(root.dirs[n].meta)
    /\ \E i \in 1..Len(ret.files) : ret.files[i].path = EmptyPath
    /\ \E i \in 1..Len(ret.files) : ret.files[i].path # EmptyPath
    /\ Len(ret.files) >= 3

\* C14: once the cached listing is set no step changes it, and it is only
\* ever set from the unset state, by a scan of an existing root.
C14_CacheSetOnceThenReadOnly ==
    [][/\ cache.set => cache' = cache
       /\ cache' # cache => (~cache.set /\ cache'.set /\ root.exists)]_vars

\* C14 witness: a time series was served from the cached listing although
\* the disk no longer holds what the listing says.
C14_Witness ==
    /\ ret.op = "series" /\ cache.set /\ hist.scanned
    /\ cache.files = hist.scan
    /\ cache.files # sorted(scan(root))

----------------------------------------------------------------------------
(* SpecEncode: one raw file of any name, extent, content and readability   *)
(* through the encoder, into a root that may already hold a slot, and the  *)
(* catalog scan that follows.                                              *)

\* File stems: years inside, at the ends of and outside the supported range,
\* a year that is no integer, a month that is no integer, no month token.
EStems ==
    { <<"tenggeli", "ndvi", y, "03">> : y \in {"2014", "2015", "2020", "2024", "2025", "xx"} }
    \cup { <<"tenggeli", "ndvi", "2020", "xx">>, <<"tenggeli", "ndvi", "2020">> }

\* Extents <<left, top, res>> of a one-pixel raster: the region's corner
\* pixel, a pixel overlapping the region by a tenth of a degree, pixels
\* touching the east, west, north and south edge from outside, a pixel far
\* from the region.
EExtents ==
    { <<required_west, required_north, 10>>,
      <<required_west - 9, required_north + 9, 10>>,
      <<required_east, required_north, 10>>,
      <<required_west - 10, required_north, 10>>,
      <<required_west, required_north + 10, 10>>,
      <<required_west, required_south, 10>>,
      <<0, 0, 10>> }

\* Pixel values: valid ones, NaN, values outside [-1, 1].
EPixels ==
    { Num(Den \div 2, Den), Num(-Den, Den), Num(Den, Den), NaN,
      Num(Den + Over, Den), Num(-9999, 1) }

ERasters ==
    { Raster(fault, "float32", None, "epsg4326", g[1], g[2], g[3], 1, 1,
             <<v>>, FALSE, <<>>) :
        fault \in Faults, g \in EExtents, v \in EPixels }
    \cup
    { Raster("none", "float32", None, "epsg4326",
             required_west, required_north, 11, 2, 1, <<v, w>>, FALSE, <<>>) :
        v \in EPixels, w \in {Num(-(Den \div 5), Den), NaN} }

\* The root before the run: missing, empty, or holding slot 2020_03 from an
\* earlier run.
ERoots ==
    { NoRoot, RootOf(NoDirs),
      RootOf([n \in {<<"2020", "03">>} |-> [tif |-> TifB, meta |-> CatMeta]]) }

EInit ==
    /\ rawfile \in {[stem |-> st, ds |-> ds] : st \in EStems, ds \in ERasters}
    /\ root \in ERoots
    /\ cache = NoCache
    /\ ret = [op |-> "none"]
    /\ hist = NoHist
    /\ batch = NoBatch

ENext == Encode \/ GetAvailableFiles

SpecEncode == EInit /\ [][ENext]_vars

\* The raw raster's bounds rectangle overlaps the region (strictly).
Overlaps(ds) ==
    /\ ds.left < required_east
    /\ ds.left + ds.res * ds.width > required_west
    /\ ds.top - ds.res * ds.height < required_north
    /\ ds.top > required_south
\* The raw raster touches an edge of the region from outside.
TouchesEdge(ds) ==
    \/ ds.left = required_east
    \/ ds.left + ds.res * ds.width = required_west
    \/ ds.top - ds.res * ds.height = required_north
    \/ ds.top = required_south

\* The encoder's call failed and wrote nothing.
Rejected == ~ret'.success /\ ret'.stats = None /\ root' = root

\* C15: a raw raster whose bounds do not overlap the region, a raster that
\* only touches an edge included, makes the encoder return (False, None) and
\* write nothing, whatever its pixels and its file name.
C15_NoOverlapRejected ==
    [][(ret'.op = "encode" /\ ~Overlaps(rawfile.ds)) => Rejected]_vars

\* C15 witness: a readable raster with a valid pixel and a good name, which
\* touches the region's east edge, was rejected and no root exists.
C15_Witness ==
    /\ ret.op = "encode" /\ ~ret.success /\ ret.stats = None
    /\ rawfile.ds.fault = "none" /\ rawfile.ds.left = required_east
    /\ TouchesEdge(rawfile.ds) /\ is_valid(rawfile.ds.pix[1])
    /\ rawfile.stem = <<"tenggeli", "ndvi", "2020", "03">>
    /\ ~root.exists

\* The year of the file name: its third token read as an integer.
HasYear(f) == Len(f.stem) >= 3 /\ IsIntTok(f.stem[3])
YearOf(f) == py_int(f.stem[3])

\* C16: a file whose year is below 2015 or above 2024 makes the encoder
\* return (False, None) and leaves the output root as it was.
C16_YearOutsideRangeRejected ==
    [][(ret'.op = "encode" /\ HasYear(rawfile)
          /\ (YearOf(rawfile) < min_year \/ YearOf(rawfile) > max_year))
         => Rejected]_vars

\* C16 witness: a readable raster of the region with a valid pixel, named
\* for 2025, was rejected and no root exists.
C16_Witness ==
    /\ ret.op = "encode" /\ ~ret.success /\ ret.stats = None
    /\ HasYear(rawfile) /\ YearOf(rawfile) = 2025
    /\ rawfile.ds.fault = "none" /\ Overlaps(rawfile.ds)
    /\ is_valid(rawfile.ds.pix[1])
    /\ ~root.exists

\* The raw file is readable and passes the bounds and the year check, and
\* its name has a month token: the encoder reaches its writes.
PassesChecks(f) ==
    /\ f.ds.fault = "none" /\ Overlaps(f.ds)
    /\ HasYear(f) /\ min_year <= YearOf(f) /\ YearOf(f) <= max_year
    /\ Len(f.stem) >= 4
\* The directory the encoder writes the file's slot to.
SlotOf(f) == <<f.stem[3], f.stem[4]>>
\* The encoder was just run on such a file and the raster write failed.
RasterWriteFailed ==
    ret.op = "encode" /\ ret.io \in {"create", "write"} /\ PassesChecks(rawfile)
\* The step is the encoder's run on such a file with a failing raster write.
FailingRasterWrite ==
    ret'.op = "encode" /\ ret'.io \in {"create", "write"} /\ PassesChecks(rawfile)
\* The step is a catalog scan.
ScanStep == ret'.op = "files" /\ ret'.scanned

\* C18 (as stated): an encode that passes the checks and fails in the raster
\* write returns success=False and leaves the metadata record in the slot's
\* directory, and the catalog scan that follows lists that (year, month)
\* with the empty path.
C18_FailedWriteListedWithEmptyPath ==
    [][/\ FailingRasterWrite =>
             /\ ~ret'.success
             /\ HasDir(root', SlotOf(rawfile))
             /\ IsFile(root'.dirs[SlotOf(rawfile)].meta)
       /\ (RasterWriteFailed /\ ScanStep) =>
             /\ IsIntTok(SlotOf(rawfile)[2])
             /\ \E i \in 1..Len(ret'.files) :
                   ret'.files[i] = [year |-> YearOf(rawfile),
                                    month |-> py_int(SlotOf(rawfile)[2]),
                                    path |-> EmptyPath]]_vars

\* C18 (amended): such an encode returns success=False and leaves the
\* metadata record; a write that fails on creating the raster leaves the
\* raster file the directory held before (none in a new directory), one that
\* fails later leaves a raster file that cannot be read.  The scan that
\* follows lists the slot when the month token is an integer, with the empty
\* path when the directory holds no raster file and with the raster's path
\* when it holds one; a directory whose month token is no integer is not
\* listed.
C18_FailedWriteLeavesMetadata ==
    [][/\ FailingRasterWrite =>
             LET slot == SlotOf(rawfile) IN
             /\ ~ret'.success
             /\ HasDir(root', slot)
             /\ IsFile(root'.dirs[slot].meta)
             /\ ret'.io = "create" =>
                    root'.dirs[slot].tif =
                        (IF HasDir(root, slot) THEN root.dirs[slot].tif ELSE NoFile)
             /\ ret'.io = "write" =>
                    (IsFile(root'.dirs[slot].tif) /\ root'.dirs[slot].tif.fault = "read")
       /\ (RasterWriteFailed /\ ScanStep) =>
             LET slot == SlotOf(rawfile) IN
             IF IsIntTok(slot[2])
             THEN \E i \in 1..Len(ret'.files) :
                     ret'.files[i] =
                         [year |-> YearOf(rawfile), month |-> py_int(slot[2]),
                          path |-> IF IsFile(root.dirs[slot].tif) THEN slot
                                   ELSE EmptyPath]
             ELSE Len(ret'.files) =
                     Cardinality({n \in (DOMAIN root.dirs) \ {slot} :
                                     NamesSlot(n) /\ HoldsSlotData(n)})]_vars

\* C18 witness: after a failed raster write into a new directory a scan
\* listed the slot, which holds the metadata record and no raster, with the
\* empty path.
C18_Witness ==
    /\ ret.op = "files" /\ ret.scanned /\ PassesChecks(rawfile)
    /\ HasDir(root, SlotOf(rawfile))
    /\ IsFile(root.dirs[SlotOf(rawfile)].meta)
    /\ ~IsFile(root.dirs[SlotOf(rawfile)].tif)
    /\ ret.files = <<[year |-> 2020, month |-> 3, path |-> EmptyPath]>>

\* The positions of the raw raster's valid pixels.
ValidAt(ds) == {i \in 1..Len(ds.pix) : InUnit(ds.pix[i])}

\* The statistics are those of the valid pixels, when there is one.
StatsOfValidPixels(st, ds) ==
    ValidAt(ds) # {} =>
        /\ Eq(st.count, Num(Cardinality(ValidAt(ds)), 1))
        /\ \E i \in ValidAt(ds) : st.min = ds.pix[i]
        /\ \A i \in ValidAt(ds) : Le(st.min, ds.pix[i])
        /\ \E i \in ValidAt(ds) : st.max = ds.pix[i]
        /\ \A i \in ValidAt(ds) : Le(ds.pix[i], st.max)
        /\ Le(st.min, st.mean) /\ Le(st.mean, st.max)
        /\ Le(Num(0, 1), st.var)
\* What a successful encode returned is what the slot's metadata holds, and
\* an encode that reaches its writes and meets no write failure succeeds.
StatsPersisted ==
    /\ (ret.op = "encode" /\ ret.success) =>
           root.dirs[SlotOf(rawfile)].meta = ret.stats
    /\ (ret.op = "encode" /\ ret.io = "ok" /\ PassesChecks(rawfile)) => ret.success
AllByteZero(tif) == \A i \in 1..Len(tif.pix) : tif.pix[i] = Num(0, 1)

\* C19 (as stated): the statistics are those of the pixels in [-1, 1] that
\* are not NaN; with no such pixel min, max, mean, std and count are all
\* null, the raster written is all byte 0 and the encode succeeds.
C19_NoValidPixelAllNull ==
    /\ StatsPersisted
    /\ (ret.op = "encode" /\ ret.success) =>
           /\ StatsOfValidPixels(ret.stats, rawfile.ds)
           /\ ValidAt(rawfile.ds) = {} =>
                  /\ ret.stats.min = None /\ ret.stats.max = None
                  /\ ret.stats.mean = None /\ ret.stats.var = None
                  /\ ret.stats.count = None
                  /\ AllByteZero(root.dirs[SlotOf(rawfile)].tif)

\* C19 (amended): as above, except that with no valid pixel min, max, mean
\* and std are null and count is 0.
C19_NoValidPixelNullAndCountZero ==
    /\ StatsPersisted
    /\ (ret.op = "encode" /\ ret.success) =>
           /\ StatsOfValidPixels(ret.stats, rawfile.ds)
           /\ ValidAt(rawfile.ds) = {} =>
                  /\ ret.stats.min = None /\ ret.stats.max = None
                  /\ ret.stats.mean = None /\ ret.stats.var = None
                  /\ ret.stats.count = Num(0, 1)
                  /\ AllByteZero(root.dirs[SlotOf(rawfile)].tif)

\* C19 witness: a raster of two pixels, one beyond 1 and one NaN, neither
\* valid, was encoded: success, null statistics, count 0, bytes 0.
C19_Witness ==
    /\ ret.op = "encode" /\ ret.success
    /\ Len(rawfile.ds.pix) = 2 /\ ValidAt(rawfile.ds) = {}
    /\ rawfile.ds.pix[1] = Num(Den + Over, Den) /\ rawfile.ds.pix[2] = NaN
    /\ ret.stats.min = None /\ ret.stats.count = Num(0, 1)
    /\ AllByteZero(root.dirs[SlotOf(rawfile)].tif)

----------------------------------------------------------------------------
(* The batch run of the encoder: check_file_integrity,                     *)
(* create_time_series_index and main of scripts/process_ndvi.py            *)

max_retries == 3

\* Whether attempt number attempt (from 0) of the integrity check raises:
\* the file is corrupt, or the environment fails this one open or read.
attempt_raises(f, glitch, attempt) == f.ds.fault # "none" \/ glitch[attempt + 1]

\* The loop of check_file_integrity from attempt number attempt on: whether
\* the file is found intact, and how many attempts were made in all.
RECURSIVE integrity_attempts(_, _, _)
integrity_attempts(f, glitch, attempt) ==
    IF attempt >= max_retries THEN [ok |-> FALSE, attempts |-> attempt]
    ELSE IF ~attempt_raises(f, glitch, attempt)
         THEN [ok |-> TRUE, attempts |-> attempt + 1]
    ELSE IF attempt < max_retries - 1
         THEN integrity_attempts(f, glitch, attempt + 1)
    ELSE [ok |-> FALSE, attempts |-> attempt + 1]

\* Faulty variant: the first attempt decides, nothing is retried.
check_file_integrity_no_retry(f, glitch) ==
    [ok |-> ~attempt_raises(f, glitch, 0), attempts |-> 1]

check_file_integrity(f, glitch) == integrity_attempts(f, glitch, 0)

\* create_time_series_index: the directories holding a metadata record.
\* Faulty variant: only the directories that hold the raster too.
index_dirs_with_raster(r) ==
    {n \in DOMAIN r.dirs : IsFile(r.dirs[n].meta) /\ IsFile(r.dirs[n].tif)}

index_dirs(r) == {n \in DOMAIN r.dirs : IsFile(r.dirs[n].meta)}

\* int(parts[0]), int(parts[1]) raises ValueError for a directory of two
\* parts that are not both integers; nothing catches it.
index_raises(r) ==
    \E n \in index_dirs(r) : Len(n) = 2 /\ ~(IsIntTok(n[1]) /\ IsIntTok(n[2]))

index_record(r, n) ==
    [year |-> py_int(n[1]), month |-> py_int(n[2]),
     date |-> <<fmt_d(py_int(n[1])), fmt_02d(py_int(n[2])), "01">>,
     path |-> n, statistics |-> r.dirs[n].meta]

index_records(r) == {index_record(r, n) : n \in {d \in index_dirs(r) : Len(d) = 2}}

\* index.sort(key=(year, month)): the sort is stable and iterdir() yields the
\* directories in any order, so records of the same (year, month) may come
\* out in either order.
index_orders(r) ==
    LET E == index_records(r)
        n == Cardinality(E)
    IN { s \in [1..n -> E] :
           /\ \A i, j \in 1..n : i # j => s[i] # s[j]
           /\ \A i, j \in 1..n :
                 i < j => (s[i].year < s[j].year
                           \/ (s[i].year = s[j].year /\ s[i].month <= s[j].month)) }

\* create_time_series_index: what a run may end in.  Either int() raises and
\* nothing is written, or index.json is written with the sorted records and
\* their count.
create_time_series_index(r) ==
    IF index_raises(r) THEN {[raised |-> TRUE, file |-> NoFile]}
    ELSE {[raised |-> FALSE,
           file |-> [kind |-> "index", count |-> Len(idx), data |-> idx]] :
            idx \in index_orders(r)}

\* The input file names of the model in Python's order of the names.
StemOrder ==
    << <<"tenggeli", "ndvi", "2020">>, <<"tenggeli", "ndvi", "2020", "03">>,
       <<"tenggeli", "ndvi", "2020", "05">>, <<"tenggeli", "ndvi", "2020", "xx">>,
       <<"tenggeli", "ndvi", "2025", "03">> >>
stem_rank(st) == CHOOSE i \in 1..Len(StemOrder) : StemOrder[i] = st

\* sorted(tiff_files)
RECURSIVE sorted_files(_)
sorted_files(S) ==
    IF S = {} THEN <<>>
    ELSE LET lo == CHOOSE f \in S : \A g \in S : stem_rank(f.stem) <= stem_rank(g.stem)
         IN <<lo>> \o sorted_files(S \ {lo})

\* main, up to the loop: the input directory is tested, the output root made
\* and the matching files listed and sorted.
BatchStart ==
    /\ batch.pc = "start"
    /\ IF ~batch.input_exists
       THEN /\ batch' = [batch EXCEPT !.pc = "done"]
            /\ root' = root
       ELSE /\ batch' = [batch EXCEPT !.pc = "loop", !.files = sorted_files(batch.input)]
            /\ root' = [exists |-> TRUE, dirs |-> root.dirs]
    /\ ret' = [op |-> "batch"]
    /\ UNCHANGED <<rawfile, cache, hist>>

\* The passing errors the environment throws at the attempts of one check:
\* none, at the first attempt, at the first two, at all three, at all but
\* the first.
GlitchPatterns ==
    { <<FALSE, FALSE, FALSE>>, <<TRUE, FALSE, FALSE>>, <<TRUE, TRUE, FALSE>>,
      <<TRUE, TRUE, TRUE>>, <<FALSE, TRUE, TRUE>> }

\* One iteration of main's loop.  The environment decides which attempts of
\* the integrity check meet a passing error (glitch), whether the encoder's
\* own open or read of the file fails (rd) and how the output write ends (io).
BatchFile ==
    /\ batch.pc = "loop"
    /\ Len(batch.log) < Len(batch.files)
    /\ \E glitch \in GlitchPatterns, rd \in Faults, io \in IOOutcomes :
          LET tiff_file == batch.files[Len(batch.log) + 1]
              chk == check_file_integrity(tiff_file, glitch)
              errs == [k \in 1..max_retries |-> attempt_raises(tiff_file, glitch, k - 1)]
              e == process_tiff_to_web_tiles([tiff_file EXCEPT !.ds.fault = rd], root, io)
          IN IF ~chk.ok
             THEN /\ batch' = [batch EXCEPT
                                 !.failed = @ + 1,
                                 !.log = Append(@, [stem |-> tiff_file.stem, errs |-> errs,
                                                    attempts |-> chk.attempts, intact |-> FALSE,
                                                    encoded |-> FALSE, success |-> FALSE])]
                  /\ root' = root
             ELSE /\ batch' = [batch EXCEPT
                                 !.successful = IF e.success THEN @ + 1 ELSE @,
                                 !.failed = IF e.success THEN @ ELSE @ + 1,
                                 !.log = Append(@, [stem |-> tiff_file.stem, errs |-> errs,
                                                    attempts |-> chk.attempts, intact |-> TRUE,
                                                    encoded |-> TRUE, success |-> e.success])]
                  /\ root' = e.root
    /\ ret' = [op |-> "batch"]
    /\ UNCHANGED <<rawfile, cache, hist>>

\* main, after the loop: the index is built when a file was encoded; an
\* exception it raises is caught nowhere and ends the process.
BatchFinish ==
    /\ batch.pc = "loop"
    /\ Len(batch.log) = Len(batch.files)
    /\ IF batch.successful > 0
       THEN \E o \in create_time_series_index(root) :
               IF o.raised
               THEN batch' = [batch EXCEPT !.pc = "crashed"]
               ELSE batch' = [batch EXCEPT !.pc = "done", !.index = o.file, !.indexed = TRUE]
       ELSE batch' = [batch EXCEPT !.pc = "done"]
    /\ ret' = [op |-> "batch"]
    /\ UNCHANGED <<rawfile, root, cache, hist>>

----------------------------------------------------------------------------
(* SpecBatch: a batch run over any small set of input files, good, corrupt *)
(* or outside the region, well or badly named.                             *)

\* How many input files a batch has at most.
MaxFiles == 2

BStems == {StemOrder[i] : i \in 1..Len(StemOrder)}
\* A good raster of the region, a corrupt file, a raster far from the region.
BRasters ==
    { OnePixel(Num(Den \div 2, Den)),
      [OnePixel(Num(Den \div 2, Den)) EXCEPT !.fault = "open"],
      [OnePixel(Num(Den \div 2, Den)) EXCEPT !.left = 0, !.top = 0] }
BFiles == {[stem |-> st, ds |-> ds] : st \in BStems, ds \in BRasters}
\* The sets of input files: no two files share a name.
BInputs ==
    { S \in SUBSET BFiles :
        /\ Cardinality(S) <= MaxFiles
        /\ \A f, g \in S : f.stem = g.stem => f = g }

\* The output root before the run: missing, or holding the metadata of an
\* earlier run's slot.
BRoots ==
    { NoRoot,
      RootOf([n \in {<<"2021", "01">>} |-> [tif |-> NoFile, meta |-> CatMeta]]) }

BInit ==
    /\ rawfile = [stem |-> PStem, ds |-> OnePixel(NaN)]
    /\ root \in BRoots
    /\ cache = NoCache
    /\ ret = [op |-> "none"]
    /\ hist = NoHist
    /\ \E inp \in BInputs, ex \in BOOLEAN :
          batch = [pc |-> "start", input_exists |-> ex, input |-> inp, files |-> <<>>,
                   successful |-> 0, failed |-> 0, log |-> <<>>,
                   indexed |-> FALSE, index |-> NoFile]

BNext == BatchStart \/ BatchFile \/ BatchFinish

SpecBatch == BInit /\ [][BNext]_vars

\* The batch has reached its loop.
InBatch == batch.pc \in {"loop", "done", "crashed"} /\ batch.input_exists

\* C17: the integrity check makes at most 3 attempts, finds the file intact
\* at the first attempt that does not fail, and finds it not intact exactly
\* when all 3 attempts fail; a file found not intact is not handed to the
\* encoder and is counted as failed.
C17_IntegrityCheckThreeAttempts ==
    InBatch =>
        /\ \A k \in 1..Len(batch.log) :
              LET en == batch.log[k] IN
              /\ 1 <= en.attempts /\ en.attempts <= 3
              /\ en.intact <=> (\E a \in 1..3 : ~en.errs[a])
              /\ en.intact =>
                    (~en.errs[en.attempts] /\ \A a \in 1..(en.attempts - 1) : en.errs[a])
              /\ ~en.intact => (en.attempts = 3 /\ ~en.encoded /\ ~en.success)
        /\ batch.failed = Cardinality({k \in 1..Len(batch.log) : ~batch.log[k].success})

\* C17 witness: one file failed all three attempts and was counted as
\* failed without being encoded, another passed at its second attempt and
\* was encoded.
C17_Witness ==
    /\ InBatch /\ Len(batch.log) = 2 /\ batch.failed = 1 /\ batch.successful = 1
    /\ \E k, l \in 1..2 :
          /\ ~batch.log[k].intact /\ batch.log[k].attempts = 3 /\ ~batch.log[k].encoded
          /\ batch.log[l].intact /\ batch.log[l].attempts = 2 /\ batch.log[l].encoded

\* C20: the batch never ends in an uncaught error; every input file is taken
\* once, in sorted order, and counted as successful or as failed, so that
\* at the end successful + failed is the number of files.
C20_BatchRunsToCompletion ==
    /\ batch.pc # "crashed"
    /\ InBatch =>
          /\ batch.successful + batch.failed = Len(batch.log)
          /\ Len(batch.log) <= Len(batch.files)
          /\ Len(batch.files) = Cardinality(batch.input)
          /\ \A k \in 1..Len(batch.log) : batch.log[k].stem = batch.files[k].stem
          /\ \A i, j \in 1..Len(batch.files) :
                i < j => stem_rank(batch.files[i].stem) < stem_rank(batch.files[j].stem)
    /\ (batch.pc = "done" /\ batch.input_exists) =>
          batch.successful + batch.failed = Cardinality(batch.input)

\* The listing a service started now would compute.
FreshListing == get_available_files(root, NoCache).files

\* C28: after an encode that returned success=True, a fresh catalog scan
\* lists the directory the file was written to, under the file's year and
\* with its raster path, and the index builder does not raise on the output
\* root, whatever the file's fourth token.
C28_SuccessIsVisibleDownstream ==
    (ret.op = "encode" /\ ret.success) =>
        /\ \E i \in 1..Len(FreshListing) :
              /\ FreshListing[i].path = SlotOf(rawfile)
              /\ FreshListing[i].year = YearOf(rawfile)
        /\ \A o \in create_time_series_index(root) : ~o.raised

----------------------------------------------------------------------------
(* SpecPair: two distinct raw files of one input directory, encoded in any *)
(* order and any number of times.                                          *)

\* File stems: two slots, a second file named for the first slot, a year
\* outside the range.
PairStems ==
    { <<"tenggeli", "ndvi", "2020", "03">>, <<"tenggeli", "ndvi", "2020", "03", "v2">>,
      <<"tenggeli", "ndvi", "2020", "05">>, <<"tenggeli", "ndvi", "2025", "03">> }
PairRasters ==
    { OnePixel(Num(Den \div 2, Den)), OnePixel(Num(-(Den \div 5), Den)), OnePixel(NaN) }
PairFiles == {[stem |-> st, ds |-> ds] : st \in PairStems, ds \in PairRasters}

PairInit ==
    /\ root = NoRoot
    /\ cache = NoCache
    /\ ret = [op |-> "none"]
    /\ hist = NoHist
    /\ \E a, b \in PairFiles :
          /\ a.stem # b.stem
          /\ rawfile = a
          /\ batch = [pc |-> "pair", files |-> <<a, b>>]

\* The encoder is run on one of the two files.
PairEncode ==
    \E k \in {1, 2}, io \in IOOutcomes :
        LET e == process_tiff_to_web_tiles(batch.files[k], root, io) IN
        /\ rawfile' = batch.files[k]
        /\ root' = e.root
        /\ ret' = [op |-> "encode", k |-> k, io |-> io, success |-> e.success,
                   stats |-> e.stats]
        /\ UNCHANGED <<cache, hist, batch>>

PairNext == PairEncode

SpecPair == PairInit /\ [][PairNext]_vars

\* The other file of the pair than the one the step encodes.
OtherFile == batch.files[3 - ret'.k]
\* What directory name held in root r, if anything.
Held(r, name) == IF HasDir(r, name) THEN r.dirs[name] ELSE EmptyDir
\* The step leaves the other file's slot directory as it was.
OtherSlotKept ==
    /\ HasDir(root', SlotOf(OtherFile)) <=> HasDir(root, SlotOf(OtherFile))
    /\ Held(root', SlotOf(OtherFile)) = Held(root, SlotOf(OtherFile))

\* C21 (as stated): encoding one of two distinct files never creates,
\* overwrites or removes the metadata record or the raster of the other
\* file's slot.
C21_EncodeLeavesOtherFilesOutput ==
    [][(ret'.op = "encode" /\ Len(OtherFile.stem) >= 4) => OtherSlotKept]_vars

\* C21 (amended): the same, for two files whose year and month tokens are
\* not both the same; two files named for the same year and month share one
\* directory, and encoding one of them replaces the other's output.
C21_EncodeLeavesOtherSlotsOutput ==
    [][(ret'.op = "encode" /\ Len(OtherFile.stem) >= 4
          /\ (Len(rawfile'.stem) >= 4 => SlotOf(rawfile') # SlotOf(OtherFile)))
         => OtherSlotKept]_vars

\* C21 witness: both files of a pair named for different slots were encoded
\* and both outputs stand.
C21_Witness ==
    /\ batch.pc = "pair" /\ ret.op = "encode" /\ ret.success /\ ret.k = 2
    /\ SlotOf(batch.files[1]) = <<"2020", "03">>
    /\ SlotOf(batch.files[2]) = <<"2020", "05">>
    /\ path_exists(root, <<"2020", "03">>) /\ path_exists(root, <<"2020", "05">>)
    /\ root.dirs[<<"2020", "03">>].tif = encoded_tif(batch.files[1].ds)
    /\ root.dirs[<<"2020", "05">>].tif = encoded_tif(batch.files[2].ds)
    /\ batch.files[1].ds # batch.files[2].ds

\* C22: encoding the same file twice in succession, the output write ending
\* the same way both times, returns the same (success, stats) and leaves
\* the output directory as the first run left it.
C22_EncodeTwiceIsEncodeOnce ==
    [][(ret.op = "encode" /\ ret'.op = "encode" /\ ret'.k = ret.k /\ ret'.io = ret.io)
         => (ret'.success = ret.success /\ ret'.stats = ret.stats /\ root' = root)]_vars

\* C22 witness: a file was encoded with success; its slot holds its metadata
\* record and its raster.
C22_Witness ==
    /\ batch.pc = "pair" /\ ret.op = "encode" /\ ret.success /\ ret.k = 1
    /\ ret.stats.count = Num(1, 1)
    /\ root.dirs[SlotOf(batch.files[1])].meta = ret.stats
    /\ root.dirs[SlotOf(batch.files[1])].tif = encoded_tif(batch.files[1].ds)
    /\ DOMAIN root.dirs = {SlotOf(batch.files[1])}

----------------------------------------------------------------------------
(* SpecStride: the sampling stride of the statistics, over rasters of any  *)
(* shape, and the statistics queries that report it.                       *)

\* Raster heights and widths around the multiples of the divisor.
Shapes == {1, 2, 999, 1000, 1001, 1999, 2000, 2001, 2999, 3000, 4000}

\* Two-pixel rasters for the statistics queries: bytes and raw floats.
StrideRasters ==
    { TwoPixels("none", "uint8", None, Num(a, 1), Num(b, 1), TRUE, <<FALSE, mk>>) :
        a \in {0}, b \in {255}, mk \in BOOLEAN }
    \cup { TwoPixels("none", "float32", None, a, Num(Den \div 2, Den), FALSE, <<>>) :
             a \in {NaN, Num(-Den, Den)} }

StrideInit ==
    /\ cache = NoCache
    /\ ret = [op |-> "none"]
    /\ hist = NoHist
    /\ batch = NoBatch
    /\ rawfile = [stem |-> PStem, ds |-> OnePixel(Num(0, Den))]
    /\ root \in {OneSlot(ds) : ds \in StrideRasters}

\* The stride and the slice of get_map_statistics for a raster of the given
\* shape: which rows and which columns of the band are kept.
SampleGrid ==
    \E height \in Shapes, width \in Shapes :
        LET step == sample_step([height |-> height, width |-> width]) IN
        /\ ret' = [op |-> "sample", height |-> height, width |-> width,
                   step |-> step,
                   rows |-> sample_index(height, step),
                   cols |-> sample_index(width, step)]
        /\ UNCHANGED <<rawfile, root, cache, hist, batch>>

StrideNext == SampleGrid \/ SStats

SpecStride == StrideInit /\ [][StrideNext]_vars

\* max(1, min(height, width) // 1000)
StrideFor(height, width) ==
    LET least == IF height < width THEN height ELSE width
    IN IF least < 1000 THEN 1 ELSE least \div 1000
\* The sequence idx lists, ascending, exactly the multiples of step below n.
EveryStepth(idx, n, step) ==
    /\ {idx[k] : k \in 1..Len(idx)} = {i \in 0..(n - 1) : i % step = 0}
    /\ \A k \in 1..(Len(idx) - 1) : idx[k] < idx[k + 1]

\* C23: the stride is max(1, min(height, width) // 1000); the sample is the
\* pixels at rows and columns 0, step, 2*step, ...; a statistics record
\* reports the stride as sample_step with sampled = true; a 2000 by 2000
\* raster has stride 2, and a raster whose lesser side is under 2000 has
\* stride 1, every pixel sampled.
C23_StrideIsLesserSideOverThousand ==
    /\ ret.op = "sample" =>
          /\ ret.step = StrideFor(ret.height, ret.width)
          /\ EveryStepth(ret.rows, ret.height, ret.step)
          /\ EveryStepth(ret.cols, ret.width, ret.step)
          /\ (ret.height = 2000 /\ ret.width = 2000) => ret.step = 2
          /\ (ret.height < 2000 \/ ret.width < 2000) =>
                /\ ret.step = 1
                /\ Len(ret.rows) = ret.height /\ Len(ret.cols) = ret.width
    /\ (StatsOnRaster /\ ~ret.stats.empty) =>
          /\ ret.stats.sampled
          /\ ret.stats.sample_step = StrideFor(StatsDs.height, StatsDs.width)
          /\ ret.stats.count <= Len(StatsDs.pix)

\* C23 witness: a 2000 by 2000 raster sampled with stride 2, a thousand rows
\* and a thousand columns kept.
C23_Witness ==
    /\ ret.op = "sample" /\ ret.height = 2000 /\ ret.width = 2000
    /\ ret.step = 2 /\ Len(ret.rows) = 1000 /\ Len(ret.cols) = 1000
    /\ ret.rows[1000] = 1998

----------------------------------------------------------------------------
(* SpecCrs: the coordinate conversion of the service, for every kind of    *)
(* raster CRS and a grid of points.                                        *)

CrsInputs == CrsKinds \cup {"lost"}
CrsLons == {-1800, 0, 1030, 1040, 1052}
CrsLats == {-900, 0, 375, 382, 390}

CrsInit ==
    /\ rawfile = [stem |-> PStem, ds |-> OnePixel(Num(0, Den))]
    /\ root = NoRoot
    /\ cache = NoCache
    /\ ret = [op |-> "none"]
    /\ hist = NoHist
    /\ batch = NoBatch

ToDatasetCrs ==
    \E c \in CrsInputs, lon \in CrsLons, lat \in CrsLats :
        LET t == catch_to_original(to_dataset_crs_try([crs |-> c], lon, lat), lon, lat) IN
        /\ ret' = [op |-> "crs", crs |-> c, lon |-> lon, lat |-> lat,
                   xy |-> t.xy, raised |-> t.exc]
        /\ UNCHANGED <<rawfile, root, cache, hist, batch>>

CrsNext == ToDatasetCrs

SpecCrs == CrsInit /\ [][CrsNext]_vars

\* The conversion returned the point it was given.
CrsUnchanged == ret.xy = <<ret.lon, ret.lat>>
\* The conversion returned the forward transform of the point.
CrsTransformed == ret.xy = rio_transform(ret.crs, ret.lon, ret.lat)

\* C25 (as stated): the conversion never raises; it returns the point
\* unchanged for an absent, EPSG:4326 or geographic CRS, and whenever the
\* CRS inspection or the transform fails; otherwise it returns the
\* transformed point.
C25_AnyFailureGivesOriginal ==
    ret.op = "crs" =>
        /\ ~ret.raised
        /\ ret.crs \in {"none", "epsg4326", "geog"} => CrsUnchanged
        /\ (crs_inspect_raises(ret.crs) \/ rio_transform_raises(ret.crs)) => CrsUnchanged
        /\ ret.crs = "utm" => CrsTransformed

\* C25 (amended): the conversion never raises; it returns the point
\* unchanged for an absent, EPSG:4326 or geographic CRS and whenever the
\* transform fails; a failure of the CRS inspection alone is passed over
\* and the transformed point is returned, as for any other CRS.
C25_TransformFailureGivesOriginal ==
    ret.op = "crs" =>
        /\ ~ret.raised
        /\ ret.crs \in {"none", "epsg4326", "geog"} => CrsUnchanged
        /\ rio_transform_raises(ret.crs) => CrsUnchanged
        /\ (ret.crs \notin {"none", "epsg4326", "geog"} /\ ~rio_transform_raises(ret.crs))
              => (CrsTransformed /\ ~CrsUnchanged)

\* C25 witness: the inspection of the CRS failed and the transformed point
\* came back.
C25_Witness ==
    /\ ret.op = "crs" /\ crs_inspect_raises(ret.crs) /\ ~rio_transform_raises(ret.crs)
    /\ ret.lon = 1040 /\ ret.lat = 382
    /\ ret.xy # <<1040, 382>> /\ ~ret.raised

----------------------------------------------------------------------------
(* SpecIndex: the index builder run on output roots of every make-up.      *)

\* Directory names: slots, one of them under two spellings, a month 13, a
\* name whose second part is no integer, names of one and of three parts.
IdxNames ==
    { <<"2020", "03">>, <<"2020", "3">>, <<"2020", "13">>, <<"2021", "01">>,
      <<"2020", "xx">>, <<"tmp">>, <<"2020", "03", "tmp">> }
\* What a directory holds: the metadata record alone, with the raster, or
\* the raster alone.
IdxContents ==
    { [tif |-> NoFile, meta |-> CatMeta], [tif |-> TifA, meta |-> SlotMeta],
      [tif |-> TifB, meta |-> NoFile] }
IdxRoots ==
    UNION { {RootOf(f) : f \in [S -> IdxContents]} : S \in SUBSET IdxNames }

IdxInit ==
    /\ rawfile = [stem |-> PStem, ds |-> OnePixel(NaN)]
    /\ root \in IdxRoots
    /\ cache = NoCache
    /\ ret = [op |-> "none"]
    /\ hist = NoHist
    /\ batch = NoBatch

CreateTimeSeriesIndex ==
    \E o \in create_time_series_index(root) :
        /\ ret' = [op |-> "index", raised |-> o.raised, file |-> o.file]
        /\ UNCHANGED <<rawfile, root, cache, hist, batch>>

IdxNext == CreateTimeSeriesIndex

SpecIndex == IdxInit /\ [][IdxNext]_vars

\* The index builder has written the index.
IndexWritten == ret.op = "index" /\ ~ret.raised
\* The directories <year>_<month> of the root that hold a metadata record.
MetadataSlots == {n \in DOMAIN root.dirs : NamesSlot(n) /\ IsFile(root.dirs[n].meta)}
TwoDigits == {"01", "03", "04", "05", "12", "13"}

\* C26: the index that the builder writes has one record for every
\* directory <year>_<month> holding a metadata record, with the raster or
\* without, and no other; the records ascend by (year, month); count is
\* their number; a record's date is its year, its month in two digits, 01.
C26_IndexListsMetadataSlots ==
    IndexWritten =>
        LET data == ret.file.data IN
        /\ {data[k].path : k \in 1..Len(data)} = MetadataSlots
        /\ Len(data) = Cardinality(MetadataSlots)
        /\ \A i, j \in 1..Len(data) : i < j => YearMonthLe(data[i], data[j])
        /\ ret.file.count = Len(data)
        /\ \A k \in 1..Len(data) :
              /\ data[k].year = py_int(data[k].path[1])
              /\ data[k].month = py_int(data[k].path[2])
              /\ data[k].statistics = root.dirs[data[k].path].meta
              /\ Len(data[k].date) = 3
              /\ py_int(data[k].date[1]) = data[k].year
              /\ data[k].date[2] \in TwoDigits
              /\ py_int(data[k].date[2]) = data[k].month
              /\ data[k].date[3] = "01"

\* C26 witness: an index of three records was written, one of them for a
\* directory without raster, while directories that name no slot hold
\* metadata records too.
C26_Witness ==
    /\ IndexWritten /\ ret.file.count = 3
    /\ {<<"2021", "01">>, <<"tmp">>, <<"2020", "03", "tmp">>} \subseteq DOMAIN root.dirs
    /\ ret.file.data[1].path \in {<<"2020", "03">>, <<"2020", "3">>}
    /\ ret.file.data[2].path \in {<<"2020", "03">>, <<"2020", "3">>}
    /\ ret.file.data[3].path = <<"2021", "01">>
    /\ ret.file.data[3].date = <<"2021", "01", "01">>
    /\ ~IsFile(root.dirs[<<"2021", "01">>].tif)
    /\ IsFile(root.dirs[<<"tmp">>].meta)
    /\ IsFile(root.dirs[<<"2020", "03", "tmp">>].meta)

----------------------------------------------------------------------------
(* SpecAgree: listings, point queries by slot and time series, while       *)
(* rasters are added to the output root and removed from it.               *)

\* Two slots, one of them under a second spelling of its directory.
AgreeNames == {<<"2020", "03">>, <<"2020", "3">>, <<"2021", "01">>}
AgreeSlots == {<<2020, 3>>, <<2021, 1>>}
AgreeRanges == {<<2020, 2020>>, <<2020, 2021>>, <<2021, 2021>>}
AgreeRoots ==
    {NoRoot} \cup
    UNION { {RootOf(f) : f \in [S -> {[tif |-> NoFile, meta |-> CatMeta],
                                      [tif |-> TifA, meta |-> CatMeta]}]} :
              S \in SUBSET AgreeNames }

AgreeInit ==
    /\ rawfile = [stem |-> PStem, ds |-> OnePixel(NaN)]
    /\ root \in AgreeRoots
    /\ cache = NoCache
    /\ ret = [op |-> "none"]
    /\ hist = NoHist
    /\ batch = NoBatch

\* The environment puts a raster (one with a value, one without) into a
\* directory, making the directory when it is not there.
AddRaster ==
    \E name \in AgreeNames, tif \in {TifA, TifZero} :
        /\ root' = [exists |-> TRUE,
                    dirs |-> [n \in (DOMAIN root.dirs) \cup {name} |->
                                  IF n = name THEN [tif |-> tif, meta |-> CatMeta]
                                  ELSE root.dirs[n]]]
        /\ root' # root
        /\ ret' = [op |-> "disk"]
        /\ UNCHANGED <<rawfile, cache, hist, batch>>

\* The environment removes the raster of a directory.
RemoveRaster ==
    \E name \in DOMAIN root.dirs :
        /\ IsFile(root.dirs[name].tif)
        /\ root' = [root EXCEPT !.dirs[name].tif = NoFile]
        /\ ret' = [op |-> "disk"]
        /\ UNCHANGED <<rawfile, cache, hist, batch>>

AgreeGetValue == \E sl \in AgreeSlots : GetValue(sl[1], sl[2], QLat, QLon)

AgreeGetTimeSeries == \E yr \in AgreeRanges : GetTimeSeries(QLat, QLon, yr[1], yr[2])

AgreeNext ==
    GetAvailableFiles \/ AgreeGetValue \/ AgreeGetTimeSeries \/ AddRaster \/ RemoveRaster

SpecAgree == AgreeInit /\ [][AgreeNext]_vars

\* The slots the range of the last time series covers.
Covered == {sl \in AgreeSlots : ret.start_year <= sl[1] /\ sl[1] <= ret.end_year}
\* The points of the last time series for a slot.
PointsOf(sl) == {i \in 1..Len(ret.data) : ret.data[i].year = sl[1] /\ ret.data[i].month = sl[2]}
\* What get_value returns for the slot at the point of the series, now.
ValueNow(sl) == get_value(root, sl[1], sl[2], ret.lat, ret.lon).val
\* The entries the cached catalog holds for a slot.
ListedFor(sl) == {i \in 1..Len(Catalog) : Catalog[i].year = sl[1] /\ Catalog[i].month = sl[2]}
\* The directory <year>_<MM> of a slot.
PaddedDir(sl) == <<fmt_d(sl[1]), fmt_02d(sl[2])>>
\* The series and get_value agree on the slot.
AgreeOn(sl) ==
    /\ PointsOf(sl) # {} <=> ValueNow(sl) # None
    /\ \A i \in PointsOf(sl) : ret.data[i].ndvi_value = ValueNow(sl)

\* C27 (as stated): whatever listings, queries and additions or removals of
\* rasters came before, a time series has a point for a slot of its range
\* exactly when get_value returns a value for the slot and the point, and
\* the values are equal.
C27_SeriesAgreesWithGetValue ==
    ret.op = "series" => \A sl \in Covered : AgreeOn(sl)

\* C27 (amended): a time series answers from the cached catalog.  It agrees
\* with get_value on a slot when the cached catalog lists the slot once and
\* with the path of the directory <year>_<MM>; it has no point for a slot
\* that the cached catalog does not list with a path, whatever get_value
\* returns; each point comes from a cached entry of its slot.
C27_SeriesAgreesWhereCatalogListsSlotDirectory ==
    ret.op = "series" =>
        \A sl \in Covered :
            /\ (Cardinality(ListedFor(sl)) = 1
                  /\ \A i \in ListedFor(sl) : Catalog[i].path = PaddedDir(sl))
                  => AgreeOn(sl)
            /\ (\A i \in ListedFor(sl) : Catalog[i].path = EmptyPath) => PointsOf(sl) = {}
            /\ Cardinality(PointsOf(sl)) =
                  Cardinality({i \in ListedFor(sl) :
                     extract_point_value(root, Catalog[i].path, ret.lat, ret.lon).val # None})

\* C27 witness: a raster was put into a slot after the catalog was cached
\* without it; get_value returns its value, the time series has no point for
\* the slot, and has one for another slot, equal to get_value's value.
C27_Witness ==
    /\ ret.op = "series" /\ ret.start_year = 2020 /\ ret.end_year = 2021
    /\ ListedFor(<<2020, 3>>) = {}
    /\ ValueNow(<<2020, 3>>) # None /\ PointsOf(<<2020, 3>>) = {}
    /\ Cardinality(PointsOf(<<2021, 1>>)) = 1
    /\ \A i \in PointsOf(<<2021, 1>>) : ret.data[i].ndvi_value = ValueNow(<<2021, 1>>)

====
